---- MODULE Spec2Model ----
(***************************************************************************)
(* Verification model of the matchmaking engine of christmas-metaphor:     *)
(* runMatchmaking (input validation, the attempt loop, the recursive       *)
(* backtrack search with its shuffles) as a state machine whose steps are  *)
(* the calls and returns of backtrack.                                     *)
(***************************************************************************)
EXTENDS Integers, Sequences, FiniteSets, TLC

\* ------------------------------------------------------------------ bounds
MaxPlayers == 3
MaxN == 2
MaxAvoidTotal == 2
MaxPrefTotal == 1
MaxRuns == 2

\* --------------------------------------------------------- program constants
maxAttempts == 100

\* ------------------------------------------------------------------- state
VARIABLES
    players,            \* Player[]: the roster handed to runMatchmaking
    N,                  \* targets per player
    pc,                 \* position inside runMatchmaking
    attempt,            \* loop counter of the attempt loop
    shuffledPlayerIds,  \* writer order of the current attempt
    assignments,        \* Map writerId -> targetIds[] of the current attempt
    targetCounts,       \* Map targetId -> count of the current attempt
    writerIndex,        \* argument of the backtrack call being entered
    stack,              \* suspended backtrack calls, innermost last
    retval,             \* value returned by the backtrack call that just ended
    result,             \* return value of runMatchmaking
    errors,             \* the console.error calls of the invocation, in order
    runs,               \* invocations made on this roster so far
    prev,               \* outcome of the previous invocation and the edit made after it
    analysis,           \* return value of analyzeMatchmakingConflict
    advisor,            \* arguments and return value of calculateOptimalConfig
    store,              \* the Firestore documents: game status, config, player lists
    view,               \* local state of one player's PlayerView
    admin,              \* position inside AdminView.handleRunMatchmaking
    gameData,           \* one client's copy of the game document (useGame state)
    inflight            \* the calls of useGame's store operations made so far

vars == <<players, N, pc, attempt, shuffledPlayerIds, assignments, targetCounts,
          writerIndex, stack, retval, result, errors, runs, prev, analysis, advisor,
          store, view, admin, gameData, inflight>>

\* ------------------------------------------------------------ input domain
UidSeq == <<"a", "b", "c", "d", "e", "f">>

AllUids == {UidSeq[i] : i \in 1..MaxPlayers}

Range(s) == {s[i] : i \in DOMAIN s}

\* string[].includes
Includes(s, x) == \E i \in DOMAIN s : s[i] = x

\* Array.prototype.filter for the uid arrays of the engine
RECURSIVE FilterSeq(_, _)
FilterSeq(s, keep) ==
    IF s = <<>> THEN <<>>
    ELSE (IF Head(s) \in keep THEN <<Head(s)>> ELSE <<>>) \o FilterSeq(Tail(s), keep)

\* the list a set of ids is stored as (the engine reads lists only through
\* includes and length, so one order per set is enough)
ListOf(S) == FilterSeq(SubSeq(UidSeq, 1, MaxPlayers), S)

\* sets of at most k elements of S
RECURSIVE UpTo(_, _)
UpTo(S, k) ==
    IF k = 0 \/ S = {} THEN {{}}
    ELSE LET x == CHOOSE y \in S : TRUE
             rest == S \ {x}
         IN UpTo(rest, k) \cup {T \cup {x} : T \in UpTo(rest, k - 1)}

Roster(P, av, pr) ==
    [i \in 1..P |->
        [uid |-> UidSeq[i],
         preferences |-> ListOf({u \in AllUids : <<i, u>> \in pr}),
         avoids |-> ListOf({u \in AllUids : <<i, u>> \in av})]]

\* ------------------------------------------------------------ pure helpers
originalPlayerIds == [i \in DOMAIN players |-> players[i].uid]

PlayerOf(ps, uid) == ps[CHOOSE i \in DOMAIN ps : ps[i].uid = uid]

\* players.filter(p => p.uid !== player.uid && !player.data.avoids.includes(p.uid))
ValidCandidatesOf(ps, player) ==
    {i \in DOMAIN ps : ps[i].uid # player.uid /\ ~Includes(player.avoids, ps[i].uid)}

\* PlayersWhoCanWriteAbout with the negation of includes lost
PlayersWhoAvoid(ps, target) ==
    {i \in DOMAIN ps : ps[i].uid # target.uid /\ Includes(ps[i].avoids, target.uid)}

\* players.filter(p => p.uid !== target.uid && !p.data.avoids.includes(target.uid))
PlayersWhoCanWriteAbout(ps, target) ==
    {i \in DOMAIN ps : ps[i].uid # target.uid /\ ~Includes(ps[i].avoids, target.uid)}

Min(S) == CHOOSE x \in S : \A y \in S : x <= y

NoReason == [kind |-> "none", uid |-> "-"]

\* Validation with the writer check at <= N
ValidationOffByOne(ps, n) ==
    LET writerStarved == {i \in DOMAIN ps : Cardinality(ValidCandidatesOf(ps, ps[i])) <= n}
        targetStarved == {i \in DOMAIN ps : Cardinality(PlayersWhoCanWriteAbout(ps, ps[i])) < n}
    IN  IF Len(ps) < 2 THEN [kind |-> "TooFewPlayers", uid |-> "-"]
        ELSE IF n < 1 THEN [kind |-> "InvalidN", uid |-> "-"]
        ELSE IF writerStarved # {}
             THEN [kind |-> "WriterStarved", uid |-> ps[Min(writerStarved)].uid]
        ELSE IF targetStarved # {}
             THEN [kind |-> "TargetStarved", uid |-> ps[Min(targetStarved)].uid]
        ELSE NoReason

\* Validation with the two starvation loops in the other order
ValidationTargetsFirst(ps, n) ==
    LET writerStarved == {i \in DOMAIN ps : Cardinality(ValidCandidatesOf(ps, ps[i])) < n}
        targetStarved == {i \in DOMAIN ps : Cardinality(PlayersWhoCanWriteAbout(ps, ps[i])) < n}
    IN  IF Len(ps) < 2 THEN [kind |-> "TooFewPlayers", uid |-> "-"]
        ELSE IF n < 1 THEN [kind |-> "InvalidN", uid |-> "-"]
        ELSE IF targetStarved # {}
             THEN [kind |-> "TargetStarved", uid |-> ps[Min(targetStarved)].uid]
        ELSE IF writerStarved # {}
             THEN [kind |-> "WriterStarved", uid |-> ps[Min(writerStarved)].uid]
        ELSE NoReason

\* the validation prefix of runMatchmaking: the reason of the first early
\* return, or NoReason when the attempt loop is reached
Validation(ps, n) ==
    LET writerStarved == {i \in DOMAIN ps : Cardinality(ValidCandidatesOf(ps, ps[i])) < n}
        targetStarved == {i \in DOMAIN ps : Cardinality(PlayersWhoCanWriteAbout(ps, ps[i])) < n}
    IN  IF Len(ps) < 2 THEN [kind |-> "TooFewPlayers", uid |-> "-"]
        ELSE IF n < 1 THEN [kind |-> "InvalidN", uid |-> "-"]
        ELSE IF writerStarved # {}
             THEN [kind |-> "WriterStarved", uid |-> ps[Min(writerStarved)].uid]
        ELSE IF targetStarved # {}
             THEN [kind |-> "TargetStarved", uid |-> ps[Min(targetStarved)].uid]
        ELSE NoReason

\* shuffle: Fisher-Yates with Math.random can produce every permutation
Shuffle(array) ==
    LET n == Len(array)
        perms == {f \in [1..n -> 1..n] : \A i, j \in 1..n : f[i] = f[j] => i = j}
    IN  {[i \in 1..n |-> array[f[i]]] : f \in perms}

\* ValidFilter without the capacity test
ValidFilterNoCapacity(writerId, targetId, writer, currentAssignments, counts) ==
    /\ targetId # writerId
    /\ ~Includes(writer.avoids, targetId)
    /\ ~Includes(currentAssignments, targetId)

\* ValidFilter where a preferred target passes the avoids test
ValidFilterPreferenceWins(writerId, targetId, writer, currentAssignments, counts) ==
    /\ targetId # writerId
    /\ (~Includes(writer.avoids, targetId) \/ Includes(writer.preferences, targetId))
    /\ ~Includes(currentAssignments, targetId)
    /\ ~(counts[targetId] >= N)

\* ValidFilter without the self test
ValidFilterNoSelf(writerId, targetId, writer, currentAssignments, counts) ==
    /\ ~Includes(writer.avoids, targetId)
    /\ ~Includes(currentAssignments, targetId)
    /\ ~(counts[targetId] >= N)

\* ValidFilter without the already-assigned test
ValidFilterNoAssigned(writerId, targetId, writer, currentAssignments, counts) ==
    /\ targetId # writerId
    /\ ~Includes(writer.avoids, targetId)
    /\ ~(counts[targetId] >= N)

\* ValidFilter without the avoids test
ValidFilterNoAvoids(writerId, targetId, writer, currentAssignments, counts) ==
    /\ targetId # writerId
    /\ ~Includes(currentAssignments, targetId)
    /\ ~(counts[targetId] >= N)

\* the filter of getValidCandidates
ValidFilter(writerId, targetId, writer, currentAssignments, counts) ==
    /\ targetId # writerId
    /\ ~Includes(writer.avoids, targetId)
    /\ ~Includes(currentAssignments, targetId)
    /\ ~(counts[targetId] >= N)

\* getValidCandidates returning the preferred candidates alone when there are any
GetValidCandidatesPreferredOnly(writerId) ==
    LET writer == PlayerOf(players, writerId)
        currentAssignments == assignments[writerId]
        valid == SelectSeq(originalPlayerIds,
                    LAMBDA targetId :
                        ValidFilter(writerId, targetId, writer, currentAssignments, targetCounts))
        preferences == SelectSeq(valid, LAMBDA id : Includes(writer.preferences, id))
        neutral == SelectSeq(valid, LAMBDA id : ~Includes(writer.preferences, id))
    IN  IF preferences # <<>> THEN Shuffle(preferences) ELSE Shuffle(neutral)

\* getValidCandidates with the neutral candidates put first
GetValidCandidatesNeutralFirst(writerId) ==
    LET writer == PlayerOf(players, writerId)
        currentAssignments == assignments[writerId]
        valid == SelectSeq(originalPlayerIds,
                    LAMBDA targetId :
                        ValidFilter(writerId, targetId, writer, currentAssignments, targetCounts))
        preferences == SelectSeq(valid, LAMBDA id : Includes(writer.preferences, id))
        neutral == SelectSeq(valid, LAMBDA id : ~Includes(writer.preferences, id))
    IN  {q \o p : p \in Shuffle(preferences), q \in Shuffle(neutral)}

\* getValidCandidates shuffling the valid candidates without the priority
GetValidCandidatesUnordered(writerId) ==
    LET writer == PlayerOf(players, writerId)
        currentAssignments == assignments[writerId]
        valid == SelectSeq(originalPlayerIds,
                    LAMBDA targetId :
                        ValidFilter(writerId, targetId, writer, currentAssignments, targetCounts))
    IN  Shuffle(valid)

\* getValidCandidates: every list the two shuffles can produce
GetValidCandidates(writerId) ==
    LET writer == PlayerOf(players, writerId)
        currentAssignments == assignments[writerId]
        valid == SelectSeq(originalPlayerIds,
                    LAMBDA targetId :
                        ValidFilter(writerId, targetId, writer, currentAssignments, targetCounts))
        preferences == SelectSeq(valid, LAMBDA id : Includes(writer.preferences, id))
        neutral == SelectSeq(valid, LAMBDA id : ~Includes(writer.preferences, id))
    IN  {p \o q : p \in Shuffle(preferences), q \in Shuffle(neutral)}

\* conversion of the assignments map to the Assignment[] result
RECURSIVE ToResult(_, _)
ToResult(ids, asg) ==
    IF ids = <<>> THEN <<>>
    ELSE [k \in 1..Len(asg[Head(ids)]) |->
            [writerId |-> Head(ids), targetId |-> asg[Head(ids)][k]]]
         \o ToResult(Tail(ids), asg)

\* the return value of runMatchmaking: null, or an Assignment[]
null == [kind |-> "null", list |-> <<>>]
none == [kind |-> "pending", list |-> <<>>]
AssignmentList(l) == [kind |-> "list", list |-> l]

EmptyMaps ==
    /\ assignments' = [u \in Range(originalPlayerIds) |-> <<>>]
    /\ targetCounts' = [u \in Range(originalPlayerIds) |-> 0]

\* analyzeMatchmakingConflict and calculateOptimalConfig have not been called
NoAnalysis == [called |-> FALSE]
NoAdvisor == [called |-> FALSE]

\* no store is attached, no PlayerView is mounted, no admin handler runs
NoStore == [status |-> "-"]
NoView == [currentUserId |-> "-"]
\* the game listener has delivered nothing, no store operation was called
NoGameData == [status |-> "-"]
NoCalls == <<>>

\* -------------------------------------------------------------------- Init
Init ==
    /\ \E P \in 0..MaxPlayers, n \in 0..MaxN :
         \E av \in UpTo((1..P) \X AllUids, MaxAvoidTotal),
            pr \in UpTo((1..P) \X AllUids, MaxPrefTotal) :
              /\ players = Roster(P, av, pr)
              /\ N = n
    /\ pc = "validate"
    /\ attempt = 0
    /\ shuffledPlayerIds = <<>>
    /\ assignments = <<>>
    /\ targetCounts = <<>>
    /\ writerIndex = 0
    /\ stack = <<>>
    /\ retval = FALSE
    /\ result = none
    /\ errors = <<>>
    /\ runs = 1
    /\ prev = [edit |-> "none", outcome |-> "none"]
    /\ analysis = NoAnalysis
    /\ advisor = NoAdvisor
    /\ store = NoStore
    /\ view = NoView
    /\ admin = "-"
    /\ gameData = NoGameData
    /\ inflight = NoCalls

\* ----------------------------------------------------------------- actions
\* lines 145-177: the early returns of runMatchmaking
Validate ==
    /\ pc = "validate"
    /\ LET r == Validation(players, N)
       IN  IF r # NoReason
           THEN /\ pc' = "done"
                /\ result' = null
                /\ errors' = Append(errors, r)
           ELSE /\ pc' = "attemptLoop"
                /\ UNCHANGED <<result, errors, gameData, inflight>>
    /\ UNCHANGED <<players, N, attempt, shuffledPlayerIds, assignments, targetCounts,
                   writerIndex, stack, retval, runs, prev, analysis, advisor,
                   store, view, admin, gameData, inflight>>

\* lines 195-205, 271: one iteration of the attempt loop starts
StartAttempt ==
    /\ pc = "attemptLoop"
    /\ attempt < maxAttempts
    /\ \E s \in Shuffle(originalPlayerIds) : shuffledPlayerIds' = s
    /\ EmptyMaps
    /\ writerIndex' = 0
    /\ stack' = <<>>
    /\ pc' = "call"
    /\ UNCHANGED <<players, N, attempt, retval, result, errors, runs, prev, analysis, advisor,
                   store, view, admin, gameData, inflight>>

\* GiveUp returning what the map holds instead of null
GiveUpBestEffort ==
    /\ pc = "attemptLoop"
    /\ ~(attempt < maxAttempts)
    /\ result' = AssignmentList(ToResult(originalPlayerIds, assignments))
    /\ errors' = Append(errors, [kind |-> "AttemptsExhausted", uid |-> "-"])
    /\ pc' = "done"
    /\ UNCHANGED <<players, N, attempt, shuffledPlayerIds, assignments, targetCounts,
                   writerIndex, stack, retval, runs, prev, analysis, advisor,
                   store, view, admin, gameData, inflight>>

\* lines 285-286: the loop ran out of attempts
GiveUp ==
    /\ pc = "attemptLoop"
    /\ ~(attempt < maxAttempts)
    /\ result' = null
    /\ errors' = Append(errors, [kind |-> "AttemptsExhausted", uid |-> "-"])
    /\ pc' = "done"
    /\ UNCHANGED <<players, N, attempt, shuffledPlayerIds, assignments, targetCounts,
                   writerIndex, stack, retval, runs, prev, analysis, advisor,
                   store, view, admin, gameData, inflight>>

\* the two maps as a call of backtrack finds them when it is entered; each
\* suspended call keeps them in its frame
Entry == [a |-> assignments, c |-> targetCounts]

\* lines 231-234: backtrack past the last writer
BacktrackAllDone ==
    /\ pc = "call"
    /\ writerIndex >= Len(shuffledPlayerIds)
    /\ retval' = TRUE
    /\ pc' = "ret"
    /\ UNCHANGED <<players, N, attempt, shuffledPlayerIds, assignments, targetCounts,
                   writerIndex, stack, result, errors, runs, prev, analysis, advisor,
                   store, view, admin, gameData, inflight>>

\* lines 240-242: the writer is full, return backtrack(writerIndex + 1)
BacktrackNextWriter ==
    /\ pc = "call"
    /\ writerIndex < Len(shuffledPlayerIds)
    /\ Len(assignments[shuffledPlayerIds[writerIndex + 1]]) >= N
    /\ stack' = Append(stack, [kind |-> "tail", writerIndex |-> writerIndex,
                               candidates |-> <<>>, i |-> 0, entry |-> Entry])
    /\ writerIndex' = writerIndex + 1
    /\ UNCHANGED <<players, N, pc, attempt, shuffledPlayerIds, assignments, targetCounts,
                   retval, result, errors, runs, prev, analysis, advisor,
                   store, view, admin, gameData, inflight>>

\* lines 245-250: no candidate is left for the writer
BacktrackNoCandidates ==
    /\ pc = "call"
    /\ writerIndex < Len(shuffledPlayerIds)
    /\ LET writerId == shuffledPlayerIds[writerIndex + 1]
       IN  /\ ~(Len(assignments[writerId]) >= N)
           /\ <<>> \in GetValidCandidates(writerId)
    /\ retval' = FALSE
    /\ pc' = "ret"
    /\ UNCHANGED <<players, N, attempt, shuffledPlayerIds, assignments, targetCounts,
                   writerIndex, stack, result, errors, runs, prev, analysis, advisor,
                   store, view, admin, gameData, inflight>>

\* lines 255-256: currentAssignments.push(targetId); targetCounts + 1
MakeAssignment(writerId, targetId) ==
    /\ assignments' = [assignments EXCEPT ![writerId] = Append(@, targetId)]
    /\ targetCounts' = [targetCounts EXCEPT ![targetId] = @ + 1]

\* lines 245, 253-259: the candidates are drawn, the first one is assigned and
\* backtrack(writerIndex) is called
BacktrackTryFirst ==
    /\ pc = "call"
    /\ writerIndex < Len(shuffledPlayerIds)
    /\ LET writerId == shuffledPlayerIds[writerIndex + 1]
       IN  /\ ~(Len(assignments[writerId]) >= N)
           /\ \E candidates \in GetValidCandidates(writerId) :
                /\ candidates # <<>>
                /\ stack' = Append(stack, [kind |-> "loop", writerIndex |-> writerIndex,
                                           candidates |-> candidates, i |-> 1,
                                           entry |-> Entry])
                /\ MakeAssignment(writerId, candidates[1])
    /\ UNCHANGED <<players, N, pc, attempt, shuffledPlayerIds, writerIndex, retval,
                   result, errors, runs, prev, analysis, advisor,
                   store, view, admin, gameData, inflight>>

\* line 241: the tail call's value is returned unchanged
ReturnFromTail ==
    /\ pc = "ret"
    /\ stack # <<>>
    /\ stack[Len(stack)].kind = "tail"
    /\ writerIndex' = stack[Len(stack)].writerIndex
    /\ stack' = SubSeq(stack, 1, Len(stack) - 1)
    /\ UNCHANGED <<players, N, pc, attempt, shuffledPlayerIds, assignments, targetCounts,
                   retval, result, errors, runs, prev, analysis, advisor,
                   store, view, admin, gameData, inflight>>

\* lines 259-261: the recursive call succeeded, return true
ReturnTrue ==
    /\ pc = "ret"
    /\ stack # <<>>
    /\ stack[Len(stack)].kind = "loop"
    /\ retval = TRUE
    /\ writerIndex' = stack[Len(stack)].writerIndex
    /\ stack' = SubSeq(stack, 1, Len(stack) - 1)
    /\ UNCHANGED <<players, N, pc, attempt, shuffledPlayerIds, assignments, targetCounts,
                   retval, result, errors, runs, prev, analysis, advisor,
                   store, view, admin, gameData, inflight>>

\* UndoAssignment without the decrement of the target count
UndoAssignmentKeepsCount(asg, counts, writerId, targetId) ==
    [a |-> [asg EXCEPT ![writerId] = SubSeq(@, 1, Len(@) - 1)],
     c |-> counts]

\* UndoAssignment without the pop
UndoAssignmentKeepsList(asg, counts, writerId, targetId) ==
    [a |-> asg,
     c |-> [counts EXCEPT ![targetId] = @ - 1]]

\* lines 264-265: currentAssignments.pop(); targetCounts - 1
UndoAssignment(asg, counts, writerId, targetId) ==
    [a |-> [asg EXCEPT ![writerId] = SubSeq(@, 1, Len(@) - 1)],
     c |-> [counts EXCEPT ![targetId] = @ - 1]]

\* lines 263-266, 253-259: the recursive call failed, the assignment is undone
\* and the next candidate is assigned
TryNextCandidate ==
    /\ pc = "ret"
    /\ stack # <<>>
    /\ LET top == stack[Len(stack)]
           writerId == shuffledPlayerIds[top.writerIndex + 1]
           undone == UndoAssignment(assignments, targetCounts, writerId, top.candidates[top.i])
       IN  /\ top.kind = "loop"
           /\ retval = FALSE
           /\ top.i < Len(top.candidates)
           /\ LET targetId == top.candidates[top.i + 1]
              IN  /\ assignments' = [undone.a EXCEPT ![writerId] = Append(@, targetId)]
                  /\ targetCounts' = [undone.c EXCEPT ![targetId] = @ + 1]
           /\ stack' = [stack EXCEPT ![Len(stack)].i = top.i + 1]
           /\ writerIndex' = top.writerIndex
    /\ pc' = "call"
    /\ UNCHANGED <<players, N, attempt, shuffledPlayerIds, retval, result, errors,
                   runs, prev, analysis, advisor,
                   store, view, admin, gameData, inflight>>

\* ReturnFalse leaving the loop after any failed candidate
ReturnFalseEarly ==
    /\ pc = "ret"
    /\ stack # <<>>
    /\ LET top == stack[Len(stack)]
           writerId == shuffledPlayerIds[top.writerIndex + 1]
           undone == UndoAssignment(assignments, targetCounts, writerId, top.candidates[top.i])
       IN  /\ top.kind = "loop"
           /\ retval = FALSE
           /\ assignments' = undone.a
           /\ targetCounts' = undone.c
           /\ writerIndex' = top.writerIndex
    /\ stack' = SubSeq(stack, 1, Len(stack) - 1)
    /\ UNCHANGED <<players, N, pc, attempt, shuffledPlayerIds, retval, result, errors,
                   runs, prev, analysis, advisor,
                   store, view, admin, gameData, inflight>>

\* lines 263-268: the last candidate failed too, undo it and return false
ReturnFalse ==
    /\ pc = "ret"
    /\ stack # <<>>
    /\ LET top == stack[Len(stack)]
           writerId == shuffledPlayerIds[top.writerIndex + 1]
           undone == UndoAssignment(assignments, targetCounts, writerId, top.candidates[top.i])
       IN  /\ top.kind = "loop"
           /\ retval = FALSE
           /\ ~(top.i < Len(top.candidates))
           /\ assignments' = undone.a
           /\ targetCounts' = undone.c
           /\ writerIndex' = top.writerIndex
    /\ stack' = SubSeq(stack, 1, Len(stack) - 1)
    /\ UNCHANGED <<players, N, pc, attempt, shuffledPlayerIds, retval, result, errors,
                   runs, prev, analysis, advisor,
                   store, view, admin, gameData, inflight>>

\* AttemptSucceeded going on to another attempt instead of returning
AttemptSucceededKeepsTrying ==
    /\ pc = "ret"
    /\ stack = <<>>
    /\ retval = TRUE
    /\ attempt' = attempt + 1
    /\ pc' = "attemptLoop"
    /\ UNCHANGED <<players, N, shuffledPlayerIds, assignments, targetCounts,
                   writerIndex, stack, retval, result, errors, runs, prev, analysis, advisor,
                   store, view, admin, gameData, inflight>>

\* lines 271-282: backtrack(0) returned true, the map becomes the result
AttemptSucceeded ==
    /\ pc = "ret"
    /\ stack = <<>>
    /\ retval = TRUE
    /\ result' = AssignmentList(ToResult(originalPlayerIds, assignments))
    /\ pc' = "done"
    /\ UNCHANGED <<players, N, attempt, shuffledPlayerIds, assignments, targetCounts,
                   writerIndex, stack, retval, errors, runs, prev, analysis, advisor,
                   store, view, admin, gameData, inflight>>

\* AttemptFailed without attempt++
AttemptFailedNoIncrement ==
    /\ pc = "ret"
    /\ stack = <<>>
    /\ retval = FALSE
    /\ pc' = "attemptLoop"
    /\ UNCHANGED <<players, N, attempt, shuffledPlayerIds, assignments, targetCounts,
                   writerIndex, stack, retval, result, errors, runs, prev, analysis, advisor,
                   store, view, admin, gameData, inflight>>

\* lines 195, 271, 283: backtrack(0) returned false, attempt++
AttemptFailed ==
    /\ pc = "ret"
    /\ stack = <<>>
    /\ retval = FALSE
    /\ attempt' = attempt + 1
    /\ pc' = "attemptLoop"
    /\ UNCHANGED <<players, N, shuffledPlayerIds, assignments, targetCounts,
                   writerIndex, stack, retval, result, errors, runs, prev, analysis, advisor,
                   store, view, admin, gameData, inflight>>

Next ==
    \/ Validate
    \/ StartAttempt
    \/ GiveUp
    \/ BacktrackAllDone
    \/ BacktrackNextWriter
    \/ BacktrackNoCandidates
    \/ BacktrackTryFirst
    \/ ReturnFromTail
    \/ ReturnTrue
    \/ TryNextCandidate
    \/ ReturnFalse
    \/ AttemptSucceeded
    \/ AttemptFailed

Spec == Init /\ [][Next]_vars

\* the validation prefix alone, up to the early return or the attempt loop
SpecValidate == Init /\ [][Validate]_vars

\* ------------------------------------------------- invocations one after another
Outcome == IF result = null THEN "failure" ELSE "success"

\* a new call of runMatchmaking: every local of the previous call is gone
Invoke(ps, edit) ==
    /\ pc = "done"
    /\ runs < MaxRuns
    /\ players' = ps
    /\ pc' = "validate"
    /\ attempt' = 0
    /\ shuffledPlayerIds' = <<>>
    /\ assignments' = <<>>
    /\ targetCounts' = <<>>
    /\ writerIndex' = 0
    /\ stack' = <<>>
    /\ retval' = FALSE
    /\ result' = none
    /\ errors' = <<>>
    /\ runs' = runs + 1
    /\ prev' = [edit |-> edit, outcome |-> Outcome]
    /\ UNCHANGED <<N, analysis, advisor,
                   store, view, admin, gameData, inflight>>

RemoveAt(s, k) == SubSeq(s, 1, k - 1) \o SubSeq(s, k + 1, Len(s))

\* runMatchmaking is called again with the same players and N
RunAgain == Invoke(players, "same")

\* runMatchmaking is called again with one id removed from one player's avoids
RunAfterAvoidRemoved ==
    \E i \in DOMAIN players : \E k \in DOMAIN players[i].avoids :
        Invoke([players EXCEPT ![i].avoids = RemoveAt(@, k)], "removed")

\* runMatchmaking is called again with one id added to one player's avoids
RunAfterAvoidAdded ==
    \E i \in DOMAIN players : \E u \in AllUids :
        /\ ~Includes(players[i].avoids, u)
        /\ Invoke([players EXCEPT ![i].avoids = ListOf(Range(@) \cup {u})], "added")

NextRepeat == Next \/ RunAgain

SpecRepeat == Init /\ [][NextRepeat]_vars

NextEdit == Next \/ RunAfterAvoidRemoved \/ RunAfterAvoidAdded

SpecEdit == Init /\ [][NextEdit]_vars

\* ------------------------------------------------------- conflict analyzer
MaxAnalyzeAvoids == 3

\* the display name a suggestion carries; names are taken to be distinct, the
\* uid stands for them
NameOf(player) == player.uid

Indices(ps) == [i \in 1..Len(ps) |-> i]

RECURSIVE Flatten(_)
Flatten(ss) == IF ss = <<>> THEN <<>> ELSE Head(ss) \o Flatten(Tail(ss))

\* where a stable ascending sort on avoids.length puts x among the sorted s
RECURSIVE InsertByAvoids(_, _, _)
InsertByAvoids(ps, s, x) ==
    IF s = <<>> THEN <<x>>
    ELSE IF Len(ps[Head(s)].avoids) - Len(ps[x].avoids) <= 0
         THEN <<Head(s)>> \o InsertByAvoids(ps, Tail(s), x)
         ELSE <<x>> \o s

\* Array.prototype.sort((a, b) => a.data.avoids.length - b.data.avoids.length)
RECURSIVE SortByAvoids(_, _)
SortByAvoids(ps, s) ==
    IF s = <<>> THEN <<>>
    ELSE InsertByAvoids(ps, SortByAvoids(ps, SubSeq(s, 1, Len(s) - 1)), s[Len(s)])

MinOf(x, y) == IF x <= y THEN x ELSE y

Suggestion(playerName, action, targetPlayerName, reason) ==
    [playerName |-> playerName, action |-> action,
     targetPlayerName |-> targetPlayerName, reason |-> reason]

\* the numbers the reason string embeds
Reason(pass, count, needs, avoidedBy) ==
    [pass |-> pass, count |-> count, needs |-> needs, avoidedBy |-> avoidedBy]

\* TargetSuggestions taking the avoiders in roster order, without the sort
TargetSuggestionsUnsorted(ps, n, t) ==
    LET targetPlayer == ps[t]
        playersWhoCanWriteAboutTarget ==
            SelectSeq(Indices(ps), LAMBDA j :
                ps[j].uid # targetPlayer.uid /\ ~Includes(ps[j].avoids, targetPlayer.uid))
        shortfall == n - Len(playersWhoCanWriteAboutTarget)
        playersAvoidingTarget ==
            SelectSeq(Indices(ps), LAMBDA j :
                ps[j].uid # targetPlayer.uid /\ Includes(ps[j].avoids, targetPlayer.uid))
        sortedAvoiders == playersAvoidingTarget
    IN  IF shortfall > 0
        THEN [i \in 1..MinOf(shortfall, Len(sortedAvoiders)) |->
                Suggestion(NameOf(ps[sortedAvoiders[i]]), "remove_avoid", NameOf(targetPlayer),
                           Reason("target", Len(playersWhoCanWriteAboutTarget), n,
                                  Len(playersAvoidingTarget)))]
        ELSE <<>>

\* TargetSuggestions suggesting one avoid fewer than the shortfall
TargetSuggestionsOneShort(ps, n, t) ==
    LET targetPlayer == ps[t]
        playersWhoCanWriteAboutTarget ==
            SelectSeq(Indices(ps), LAMBDA j :
                ps[j].uid # targetPlayer.uid /\ ~Includes(ps[j].avoids, targetPlayer.uid))
        shortfall == n - Len(playersWhoCanWriteAboutTarget)
        playersAvoidingTarget ==
            SelectSeq(Indices(ps), LAMBDA j :
                ps[j].uid # targetPlayer.uid /\ Includes(ps[j].avoids, targetPlayer.uid))
        sortedAvoiders == SortByAvoids(ps, playersAvoidingTarget)
    IN  IF shortfall > 0
        THEN [i \in 1..MinOf(shortfall - 1, Len(sortedAvoiders)) |->
                Suggestion(NameOf(ps[sortedAvoiders[i]]), "remove_avoid", NameOf(targetPlayer),
                           Reason("target", Len(playersWhoCanWriteAboutTarget), n,
                                  Len(playersAvoidingTarget)))]
        ELSE <<>>

\* lines 21-54, the body of the first loop for one targetPlayer
TargetSuggestions(ps, n, t) ==
    LET targetPlayer == ps[t]
        playersWhoCanWriteAboutTarget ==
            SelectSeq(Indices(ps), LAMBDA j :
                ps[j].uid # targetPlayer.uid /\ ~Includes(ps[j].avoids, targetPlayer.uid))
        shortfall == n - Len(playersWhoCanWriteAboutTarget)
        playersAvoidingTarget ==
            SelectSeq(Indices(ps), LAMBDA j :
                ps[j].uid # targetPlayer.uid /\ Includes(ps[j].avoids, targetPlayer.uid))
        sortedAvoiders == SortByAvoids(ps, playersAvoidingTarget)
    IN  IF shortfall > 0
        THEN [i \in 1..MinOf(shortfall, Len(sortedAvoiders)) |->
                Suggestion(NameOf(ps[sortedAvoiders[i]]), "remove_avoid", NameOf(targetPlayer),
                           Reason("target", Len(playersWhoCanWriteAboutTarget), n,
                                  Len(playersAvoidingTarget)))]
        ELSE <<>>

\* WriterSuggestions with the two names of a suggestion exchanged
WriterSuggestionsSwapped(ps, n, w) ==
    LET player == ps[w]
        validCandidates ==
            SelectSeq(Indices(ps), LAMBDA j :
                ps[j].uid # player.uid /\ ~Includes(player.avoids, ps[j].uid))
        shortfall == n - Len(validCandidates)
        avoidedPlayers ==
            SelectSeq(Indices(ps), LAMBDA j :
                ps[j].uid # player.uid /\ Includes(player.avoids, ps[j].uid))
        sortedAvoids == SortByAvoids(ps, avoidedPlayers)
    IN  IF shortfall > 0
        THEN [i \in 1..MinOf(shortfall, Len(sortedAvoids)) |->
                Suggestion(NameOf(ps[sortedAvoids[i]]), "remove_avoid", NameOf(player),
                           Reason("writer", Len(validCandidates), n, 0))]
        ELSE <<>>

\* WriterSuggestions taking the avoided players in roster order, without the sort
WriterSuggestionsUnsorted(ps, n, w) ==
    LET player == ps[w]
        validCandidates ==
            SelectSeq(Indices(ps), LAMBDA j :
                ps[j].uid # player.uid /\ ~Includes(player.avoids, ps[j].uid))
        shortfall == n - Len(validCandidates)
        avoidedPlayers ==
            SelectSeq(Indices(ps), LAMBDA j :
                ps[j].uid # player.uid /\ Includes(player.avoids, ps[j].uid))
        sortedAvoids == avoidedPlayers
    IN  IF shortfall > 0
        THEN [i \in 1..MinOf(shortfall, Len(sortedAvoids)) |->
                Suggestion(NameOf(player), "remove_avoid", NameOf(ps[sortedAvoids[i]]),
                           Reason("writer", Len(validCandidates), n, 0))]
        ELSE <<>>

\* WriterSuggestions with the test shortfall > 1
WriterSuggestionsLate(ps, n, w) ==
    LET player == ps[w]
        validCandidates ==
            SelectSeq(Indices(ps), LAMBDA j :
                ps[j].uid # player.uid /\ ~Includes(player.avoids, ps[j].uid))
        shortfall == n - Len(validCandidates)
        avoidedPlayers ==
            SelectSeq(Indices(ps), LAMBDA j :
                ps[j].uid # player.uid /\ Includes(player.avoids, ps[j].uid))
        sortedAvoids == SortByAvoids(ps, avoidedPlayers)
    IN  IF shortfall > 1
        THEN [i \in 1..MinOf(shortfall, Len(sortedAvoids)) |->
                Suggestion(NameOf(player), "remove_avoid", NameOf(ps[sortedAvoids[i]]),
                           Reason("writer", Len(validCandidates), n, 0))]
        ELSE <<>>

\* lines 57-90, the body of the second loop for one player
WriterSuggestions(ps, n, w) ==
    LET player == ps[w]
        validCandidates ==
            SelectSeq(Indices(ps), LAMBDA j :
                ps[j].uid # player.uid /\ ~Includes(player.avoids, ps[j].uid))
        shortfall == n - Len(validCandidates)
        avoidedPlayers ==
            SelectSeq(Indices(ps), LAMBDA j :
                ps[j].uid # player.uid /\ Includes(player.avoids, ps[j].uid))
        sortedAvoids == SortByAvoids(ps, avoidedPlayers)
    IN  IF shortfall > 0
        THEN [i \in 1..MinOf(shortfall, Len(sortedAvoids)) |->
                Suggestion(NameOf(player), "remove_avoid", NameOf(ps[sortedAvoids[i]]),
                           Reason("writer", Len(validCandidates), n, 0))]
        ELSE <<>>

\* PreferenceSuggestions naming the first valid candidate, preferred or not
PreferenceSuggestionsFirstValid(ps, n, w) ==
    LET player == ps[w]
        validCandidates ==
            SelectSeq(Indices(ps), LAMBDA j :
                ps[j].uid # player.uid /\ ~Includes(player.avoids, ps[j].uid))
    IN  IF Len(validCandidates) = n /\ Len(validCandidates) > 0
        THEN <<Suggestion(NameOf(player), "add_preference", NameOf(ps[validCandidates[1]]),
                          Reason("boundary", Len(validCandidates), n, 0))>>
        ELSE <<>>

\* lines 94-117, the body of the third loop for one player
PreferenceSuggestions(ps, n, w) ==
    LET player == ps[w]
        validCandidates ==
            SelectSeq(Indices(ps), LAMBDA j :
                ps[j].uid # player.uid /\ ~Includes(player.avoids, ps[j].uid))
        neutralPlayers ==
            SelectSeq(validCandidates, LAMBDA j : ~Includes(player.preferences, ps[j].uid))
    IN  IF Len(validCandidates) = n /\ Len(neutralPlayers) > 0
        THEN <<Suggestion(NameOf(player), "add_preference", NameOf(ps[neutralPlayers[1]]),
                          Reason("boundary", Len(validCandidates), n, 0))>>
        ELSE <<>>

\* Suggestions with the writer pass ahead of the target pass
SuggestionsWritersFirst(ps, n) ==
    Flatten([w \in 1..Len(ps) |-> WriterSuggestions(ps, n, w)])
    \o Flatten([t \in 1..Len(ps) |-> TargetSuggestions(ps, n, t)])
    \o Flatten([w \in 1..Len(ps) |-> PreferenceSuggestions(ps, n, w)])

\* the suggestions array after the three loops
Suggestions(ps, n) ==
    Flatten([t \in 1..Len(ps) |-> TargetSuggestions(ps, n, t)])
    \o Flatten([w \in 1..Len(ps) |-> WriterSuggestions(ps, n, w)])
    \o Flatten([w \in 1..Len(ps) |-> PreferenceSuggestions(ps, n, w)])

\* SummaryOf counting every suggestion as a remove_avoid
SummaryOfCountsAll(suggestions) ==
    IF Len(suggestions) = 0
    THEN [text |-> "NoObviousConflicts", total |-> 0, removeAvoidCount |-> 0, addPrefCount |-> 0]
    ELSE [text |-> "Found",
          total |-> Len(suggestions),
          removeAvoidCount |-> Len(suggestions),
          addPrefCount |->
              Len(SelectSeq(suggestions, LAMBDA x : x.action = "add_preference"))]

\* lines 119-128: the numbers the summary string embeds
SummaryOf(suggestions) ==
    IF Len(suggestions) = 0
    THEN [text |-> "NoObviousConflicts", total |-> 0, removeAvoidCount |-> 0, addPrefCount |-> 0]
    ELSE [text |-> "Found",
          total |-> Len(suggestions),
          removeAvoidCount |->
              Len(SelectSeq(suggestions, LAMBDA x : x.action = "remove_avoid")),
          addPrefCount |->
              Len(SelectSeq(suggestions, LAMBDA x : x.action = "add_preference"))]

\* analyzeMatchmakingConflict
AnalyzeMatchmakingConflict(ps, n) ==
    LET suggestions == Suggestions(ps, n)
    IN  [called |-> TRUE,
         hasConflict |-> Len(suggestions) > 0,
         suggestions |-> suggestions,
         summary |-> SummaryOf(suggestions)]

\* runMatchmaking not entered, analyzer and advisor not called
EngineIdle ==
    /\ pc = "validate"
    /\ attempt = 0
    /\ shuffledPlayerIds = <<>>
    /\ assignments = <<>>
    /\ targetCounts = <<>>
    /\ writerIndex = 0
    /\ stack = <<>>
    /\ retval = FALSE
    /\ result = none
    /\ errors = <<>>
    /\ runs = 1
    /\ prev = [edit |-> "none", outcome |-> "none"]
    /\ analysis = NoAnalysis
    /\ advisor = NoAdvisor
    /\ store = NoStore
    /\ view = NoView
    /\ admin = "-"
    /\ gameData = NoGameData
    /\ inflight = NoCalls

\* rosters with longer avoids lists and no preferences, for the two passes
\* that sort on avoids.length and read no preferences
InitAnalyzeAvoids ==
    /\ \E P \in 0..MaxPlayers, n \in 0..MaxN :
         \E av \in UpTo((1..P) \X AllUids, MaxAnalyzeAvoids) :
              /\ players = Roster(P, av, {})
              /\ N = n
    /\ EngineIdle

\* Analyze with the sort applied to the players array itself
AnalyzeSortingRoster ==
    /\ ~analysis.called
    /\ analysis' = AnalyzeMatchmakingConflict(players, N)
    /\ players' = [i \in DOMAIN players |-> players[SortByAvoids(players, Indices(players))[i]]]
    /\ UNCHANGED <<N, pc, attempt, shuffledPlayerIds, assignments, targetCounts,
                   writerIndex, stack, retval, result, errors, runs, prev, advisor,
                   store, view, admin, gameData, inflight>>

\* a call analyzeMatchmakingConflict(players, N)
Analyze ==
    /\ ~analysis.called
    /\ analysis' = AnalyzeMatchmakingConflict(players, N)
    /\ UNCHANGED <<players, N, pc, attempt, shuffledPlayerIds, assignments, targetCounts,
                   writerIndex, stack, retval, result, errors, runs, prev, advisor,
                   store, view, admin, gameData, inflight>>

NextAnalyze == Validate \/ Analyze

\* the validation of runMatchmaking and the analyzer, each run on the roster
SpecAnalyze == Init /\ [][NextAnalyze]_vars

SpecAnalyzeAvoids == InitAnalyzeAvoids /\ [][NextAnalyze]_vars

\* AdminView.handleRunMatchmaking: the analyzer is called on the roster
\* runMatchmaking has just returned null for
AnalyzeAfterNull ==
    /\ pc = "done"
    /\ result = null
    /\ Analyze

NextAdmin == Next \/ AnalyzeAfterNull \/ RunAgain

\* the admin runs matchmaking, has a failure analyzed, and runs it again
SpecAdmin == Init /\ [][NextAdmin]_vars

\* --------------------------------------------------------- config advisor
MaxPlayerCount == 12
MaxTargetsPerPlayer == 12

Max2(x, y) == IF x >= y THEN x ELSE y

\* MaxPossibleAvoids without the targets each player needs
MaxPossibleAvoidsIgnoringTargets(playerCount, targetsPerPlayer) ==
    Max2(0, playerCount - 1)

\* Math.max(0, playerCount - 1 - targetsPerPlayer)
MaxPossibleAvoids(playerCount, targetsPerPlayer) ==
    Max2(0, playerCount - 1 - targetsPerPlayer)

\* SafeMaxAvoids rounding up
SafeMaxAvoidsCeil(maxPossibleAvoids) == -((-(maxPossibleAvoids * 8)) \div 10)

\* Math.floor(maxPossibleAvoids * 0.8); the double product has the floor of
\* the exact product 8m/10 for every m below 2^20
SafeMaxAvoids(maxPossibleAvoids) == (maxPossibleAvoids * 8) \div 10

\* SuggestedMaxPreferences rounding down
SuggestedMaxPreferencesFloor(playerCount) ==
    LET otherPlayersCount == playerCount - 1
    IN  MinOf((otherPlayersCount * 6) \div 10, otherPlayersCount)

\* Math.min(Math.ceil(otherPlayersCount * 0.6), otherPlayersCount); the double
\* product has the ceiling of the exact product 6m/10 for every m below 2^20
SuggestedMaxPreferences(playerCount) ==
    LET otherPlayersCount == playerCount - 1
    IN  MinOf(-((-(otherPlayersCount * 6)) \div 10), otherPlayersCount)

\* a reasoning string: its template and the numbers it embeds
Line(text, x, y) == [text |-> text, x |-> x, y |-> y]

\* TwoPlayerConfig with the two limits exchanged
TwoPlayerConfigSwapped ==
    [maxPreferences |-> 0,
     maxAvoids |-> 1,
     reasoning |-> <<Line("With only 2 players, each must write about the other.", 0, 0),
                     Line("Max avoids: 0 (cannot avoid the only other player)", 0, 0),
                     Line("Max preferences: 1 (can prefer the other player)", 0, 0)>>]

\* lines 118-128: the return value of the two-player special case
TwoPlayerConfig ==
    [maxPreferences |-> 1,
     maxAvoids |-> 0,
     reasoning |-> <<Line("With only 2 players, each must write about the other.", 0, 0),
                     Line("Max avoids: 0 (cannot avoid the only other player)", 0, 0),
                     Line("Max preferences: 1 (can prefer the other player)", 0, 0)>>]

\* CalculateOptimalConfig testing the two-player special case before the
\* degenerate-input returns
CalculateOptimalConfigTwoPlayersFirst(playerCount, targetsPerPlayer) ==
    LET maxPossibleAvoids == MaxPossibleAvoids(playerCount, targetsPerPlayer)
        safeMaxAvoids == SafeMaxAvoids(maxPossibleAvoids)
        suggestedMaxPreferences == SuggestedMaxPreferences(playerCount)
        reasoning ==
            <<Line("With x players, each player needs at least y valid candidates.",
                   playerCount, targetsPerPlayer),
              Line("Maximum possible avoids per player: x (to ensure y valid candidates remain).",
                   maxPossibleAvoids, targetsPerPlayer),
              Line("Suggested max preferences: x", suggestedMaxPreferences, 0),
              Line("Suggested max avoids: x", safeMaxAvoids, 0)>>
    IN  IF playerCount = 2 THEN TwoPlayerConfig
        ELSE IF playerCount < 2
        THEN [maxPreferences |-> 0, maxAvoids |-> 0,
              reasoning |-> <<Line("Need at least 2 players", 0, 0)>>]
        ELSE IF targetsPerPlayer < 1
        THEN [maxPreferences |-> 0, maxAvoids |-> 0,
              reasoning |-> <<Line("Targets per player must be at least 1", 0, 0)>>]
        ELSE IF maxPossibleAvoids <= 0
        THEN [maxPreferences |-> suggestedMaxPreferences, maxAvoids |-> 0,
              reasoning |-> <<Line("With x players and y targets per player,",
                                   playerCount, targetsPerPlayer),
                              Line("players cannot avoid anyone (would leave insufficient candidates).",
                                   0, 0),
                              Line("Suggested max preferences: x", suggestedMaxPreferences, 0)>>]
        ELSE [maxPreferences |-> suggestedMaxPreferences, maxAvoids |-> safeMaxAvoids,
              reasoning |-> reasoning]

\* calculateOptimalConfig
CalculateOptimalConfig(playerCount, targetsPerPlayer) ==
    LET maxPossibleAvoids == MaxPossibleAvoids(playerCount, targetsPerPlayer)
        safeMaxAvoids == SafeMaxAvoids(maxPossibleAvoids)
        suggestedMaxPreferences == SuggestedMaxPreferences(playerCount)
        reasoning ==
            <<Line("With x players, each player needs at least y valid candidates.",
                   playerCount, targetsPerPlayer),
              Line("Maximum possible avoids per player: x (to ensure y valid candidates remain).",
                   maxPossibleAvoids, targetsPerPlayer),
              Line("Suggested max preferences: x", suggestedMaxPreferences, 0),
              Line("Suggested max avoids: x", safeMaxAvoids, 0)>>
    IN  IF playerCount < 2
        THEN [maxPreferences |-> 0, maxAvoids |-> 0,
              reasoning |-> <<Line("Need at least 2 players", 0, 0)>>]
        ELSE IF targetsPerPlayer < 1
        THEN [maxPreferences |-> 0, maxAvoids |-> 0,
              reasoning |-> <<Line("Targets per player must be at least 1", 0, 0)>>]
        ELSE IF playerCount = 2 THEN TwoPlayerConfig
        ELSE IF maxPossibleAvoids <= 0
        THEN [maxPreferences |-> suggestedMaxPreferences, maxAvoids |-> 0,
              reasoning |-> <<Line("With x players and y targets per player,",
                                   playerCount, targetsPerPlayer),
                              Line("players cannot avoid anyone (would leave insufficient candidates).",
                                   0, 0),
                              Line("Suggested max preferences: x", suggestedMaxPreferences, 0)>>]
        ELSE [maxPreferences |-> suggestedMaxPreferences, maxAvoids |-> safeMaxAvoids,
              reasoning |-> reasoning]

\* no roster is involved: the advisor reads its two arguments only
InitConfig ==
    /\ players = <<>>
    /\ N = 0
    /\ EngineIdle

\* a call calculateOptimalConfig(playerCount, targetsPerPlayer) with integer
\* arguments
Advise ==
    /\ \E playerCount \in 0..MaxPlayerCount, targetsPerPlayer \in -1..MaxTargetsPerPlayer :
          advisor' = [called |-> TRUE,
                      playerCount |-> playerCount,
                      targetsPerPlayer |-> targetsPerPlayer,
                      out |-> CalculateOptimalConfig(playerCount, targetsPerPlayer)]
    /\ UNCHANGED <<players, N, pc, attempt, shuffledPlayerIds, assignments, targetCounts,
                   writerIndex, stack, retval, result, errors, runs, prev, analysis,
                   store, view, admin, gameData, inflight>>

SpecConfig == InitConfig /\ [][Advise]_vars

\* ------------------------------------------- rosters within the advised cap
MaxCappedPlayers == 5

\* a roster of P participants with empty lists
InitCapped ==
    /\ \E P \in 0..MaxCappedPlayers, n \in 0..MaxN :
          /\ players = [i \in 1..P |-> [uid |-> UidSeq[i], preferences |-> <<>>, avoids |-> <<>>]]
          /\ N = n
    /\ EngineIdle

\* AdminView, the suggestion box: calculateOptimalConfig(players.length,
\* targetsPerPlayer)
AdviseRoster ==
    /\ ~advisor.called
    /\ advisor' = [called |-> TRUE,
                   playerCount |-> Len(players),
                   targetsPerPlayer |-> N,
                   out |-> CalculateOptimalConfig(Len(players), N)]
    /\ UNCHANGED <<players, N, pc, attempt, shuffledPlayerIds, assignments, targetCounts,
                   writerIndex, stack, retval, result, errors, runs, prev, analysis,
                   store, view, admin, gameData, inflight>>

\* every participant fills its avoids list with at most the advised number of
\* ids
FillAvoidsWithinCap ==
    /\ advisor.called
    /\ pc = "validate"
    /\ \A i \in DOMAIN players : players[i].avoids = <<>>
    /\ LET ids == SubSeq(UidSeq, 1, Len(players))
           lists == {FilterSeq(ids, S) : S \in UpTo(Range(ids), advisor.out.maxAvoids)}
       IN  \E av \in [DOMAIN players -> lists] :
              players' = [i \in DOMAIN players |-> [players[i] EXCEPT !.avoids = av[i]]]
    /\ UNCHANGED <<N, pc, attempt, shuffledPlayerIds, assignments, targetCounts,
                   writerIndex, stack, retval, result, errors, runs, prev, analysis, advisor,
                   store, view, admin, gameData, inflight>>

\* runMatchmaking validates the roster the participants have filled
ValidateCapped ==
    /\ advisor.called
    /\ Validate

NextCapped == AdviseRoster \/ FillAvoidsWithinCap \/ ValidateCapped

SpecCapped == InitCapped /\ [][NextCapped]_vars

\* ------------------------------------------------- self-reference in a list
\* the roster is read again after one participant's own uid was added to its
\* own avoids or preferences; validation and the analyzer are run anew and the
\* earlier error log and suggestion list are kept for comparison
AddSelfReference ==
    /\ pc # "validate"
    /\ analysis.called
    /\ runs < MaxRuns
    /\ \E i \in DOMAIN players :
          \/ /\ ~Includes(players[i].avoids, players[i].uid)
             /\ players' = [players EXCEPT
                               ![i].avoids = ListOf(Range(@) \cup {players[i].uid})]
          \/ /\ ~Includes(players[i].preferences, players[i].uid)
             /\ players' = [players EXCEPT
                               ![i].preferences = ListOf(Range(@) \cup {players[i].uid})]
    /\ prev' = [edit |-> "self", outcome |-> errors, suggestions |-> analysis.suggestions]
    /\ pc' = "validate"
    /\ errors' = <<>>
    /\ result' = none
    /\ analysis' = NoAnalysis
    /\ runs' = runs + 1
    /\ UNCHANGED <<N, attempt, shuffledPlayerIds, assignments, targetCounts,
                   writerIndex, stack, retval, advisor,
                   store, view, admin, gameData, inflight>>

NextSelf == Validate \/ Analyze \/ AddSelfReference

SpecSelf == Init /\ [][NextSelf]_vars

\* ------------------------------------------------- PlayerView and the store
MaxCap == 2

defaultMaxPreferences == 10
defaultMaxAvoids == 5
defaultTargetsPerPlayer == 2

\* x || d for a number x
OrDefault(x, d) == IF x = 0 THEN d ELSE x

\* list.filter(id => id !== targetId)
Without(list, targetId) == SelectSeq(list, LAMBDA id : id # targetId)

\* lines 134-148 of handleTogglePreference: the new lists, or no update when
\* the alert is shown
TogglePreference(localPreferences, localAvoids, targetId, config) ==
    LET maxPreferences == OrDefault(config.maxPreferences, defaultMaxPreferences)
        isCurrentlyStarred == Includes(localPreferences, targetId)
    IN  IF ~isCurrentlyStarred /\ Len(localPreferences) >= maxPreferences
        THEN [updated |-> FALSE, preferences |-> localPreferences, avoids |-> localAvoids]
        ELSE [updated |-> TRUE,
              preferences |-> IF isCurrentlyStarred
                              THEN Without(localPreferences, targetId)
                              ELSE Append(localPreferences, targetId),
              avoids |-> Without(localAvoids, targetId)]

\* ToggleAvoid leaving the preferences as they are
ToggleAvoidKeepsPreferences(localPreferences, localAvoids, targetId, config) ==
    LET maxAvoids == OrDefault(config.maxAvoids, defaultMaxAvoids)
        isCurrentlyBlocked == Includes(localAvoids, targetId)
    IN  IF ~isCurrentlyBlocked /\ Len(localAvoids) >= maxAvoids
        THEN [updated |-> FALSE, preferences |-> localPreferences, avoids |-> localAvoids]
        ELSE [updated |-> TRUE,
              preferences |-> localPreferences,
              avoids |-> IF isCurrentlyBlocked
                         THEN Without(localAvoids, targetId)
                         ELSE Append(localAvoids, targetId)]

\* lines 161-175 of handleToggleAvoid
ToggleAvoid(localPreferences, localAvoids, targetId, config) ==
    LET maxAvoids == OrDefault(config.maxAvoids, defaultMaxAvoids)
        isCurrentlyBlocked == Includes(localAvoids, targetId)
    IN  IF ~isCurrentlyBlocked /\ Len(localAvoids) >= maxAvoids
        THEN [updated |-> FALSE, preferences |-> localPreferences, avoids |-> localAvoids]
        ELSE [updated |-> TRUE,
              preferences |-> Without(localPreferences, targetId),
              avoids |-> IF isCurrentlyBlocked
                         THEN Without(localAvoids, targetId)
                         ELSE Append(localAvoids, targetId)]

\* players.filter(p => p.uid !== currentUserId), the rows PlayerView renders
otherPlayers == DOMAIN store.players \ {view.currentUserId}

\* setLocalPreferences, setLocalAvoids and updatePlayerPreferences; the
\* listener then hands the written lists back to the view unchanged
ApplyToggle(r) ==
    /\ r.updated
    /\ view' = [view EXCEPT !.localPreferences = r.preferences, !.localAvoids = r.avoids]
    /\ store' = [store EXCEPT !.players[view.currentUserId].preferences = r.preferences,
                              !.players[view.currentUserId].avoids = r.avoids]

\* a click on a row's Merry Pick button while the preferences screen is shown
HandleTogglePreference ==
    /\ view.currentUserId # "-"
    /\ store.status = "PREFERENCES"
    /\ \E targetId \in otherPlayers :
          ApplyToggle(TogglePreference(view.localPreferences, view.localAvoids,
                                       targetId, store.config))
    /\ UNCHANGED <<players, N, pc, attempt, shuffledPlayerIds, assignments, targetCounts,
                   writerIndex, stack, retval, result, errors, runs, prev, analysis,
                   advisor, admin, gameData, inflight>>

\* a click on a row's Skip button while the preferences screen is shown
HandleToggleAvoid ==
    /\ view.currentUserId # "-"
    /\ store.status = "PREFERENCES"
    /\ \E targetId \in otherPlayers :
          ApplyToggle(ToggleAvoid(view.localPreferences, view.localAvoids,
                                  targetId, store.config))
    /\ UNCHANGED <<players, N, pc, attempt, shuffledPlayerIds, assignments, targetCounts,
                   writerIndex, stack, retval, result, errors, runs, prev, analysis,
                   advisor, admin, gameData, inflight>>

\* submissions: {} of a new player document
NoSubmissions == [t \in {} |-> [impression |-> "", reality |-> "", writerRevealed |-> FALSE]]

\* the player documents of a roster
DocumentsOf(ps) ==
    [u \in {ps[i].uid : i \in DOMAIN ps} |->
        [preferences |-> PlayerOf(ps, u).preferences,
         avoids |-> PlayerOf(ps, u).avoids,
         assignments |-> <<>>,
         submissions |-> NoSubmissions]]

\* the view of player u as the listener fills it from u's document
ViewOf(ps, u) ==
    [currentUserId |-> u,
     localPreferences |-> PlayerOf(ps, u).preferences,
     localAvoids |-> PlayerOf(ps, u).avoids]

\* the preferences phase with one player's view open: stored caps of any
\* value, the player's two lists disjoint, without the player's own uid and
\* within the caps; runMatchmaking is not entered
InitPlayer ==
    /\ \E P \in 2..MaxPlayers, capP \in 0..MaxCap, capA \in 0..MaxCap, n \in 1..MaxN :
         \E i \in 1..P :
            \E pr \in SUBSET ({UidSeq[j] : j \in 1..P} \ {UidSeq[i]}) :
               \E av \in SUBSET (({UidSeq[j] : j \in 1..P} \ {UidSeq[i]}) \ pr) :
                  /\ Cardinality(pr) <= capP
                  /\ Cardinality(av) <= capA
                  /\ players = Roster(P, {<<i, x>> : x \in av}, {<<i, x>> : x \in pr})
                  /\ N = n
                  /\ store = [status |-> "PREFERENCES",
                              config |-> [targetsPerPlayer |-> n,
                                          maxPreferences |-> capP,
                                          maxAvoids |-> capA],
                              players |-> DocumentsOf(Roster(P, {<<i, x>> : x \in av},
                                                             {<<i, x>> : x \in pr}))]
                  /\ view = ViewOf(Roster(P, {<<i, x>> : x \in av}, {<<i, x>> : x \in pr}),
                                   UidSeq[i])
    /\ pc = "validate"
    /\ attempt = 0
    /\ shuffledPlayerIds = <<>>
    /\ assignments = <<>>
    /\ targetCounts = <<>>
    /\ writerIndex = 0
    /\ stack = <<>>
    /\ retval = FALSE
    /\ result = none
    /\ errors = <<>>
    /\ runs = 1
    /\ prev = [edit |-> "none", outcome |-> "none"]
    /\ analysis = NoAnalysis
    /\ advisor = NoAdvisor
    /\ admin = "-"
    /\ gameData = NoGameData
    /\ inflight = NoCalls

NextPlayer == HandleTogglePreference \/ HandleToggleAvoid

SpecPlayer == InitPlayer /\ [][NextPlayer]_vars

\* ------------------------------------------- AdminView.handleRunMatchmaking
\* the store's initial config (useGame) but for targetsPerPlayer, any roster of
\* the engine's input domain as the admin's listener delivered it, one
\* player's view open, the handler not yet entered
InitGame ==
    /\ \E P \in 0..MaxPlayers, t \in 0..MaxN :
         \E av \in UpTo((1..P) \X AllUids, MaxAvoidTotal),
            pr \in UpTo((1..P) \X AllUids, MaxPrefTotal) :
              /\ players = Roster(P, av, pr)
              /\ N = OrDefault(t, defaultTargetsPerPlayer)
              /\ store = [status |-> "PREFERENCES",
                          config |-> [targetsPerPlayer |-> t,
                                      maxPreferences |-> defaultMaxPreferences,
                                      maxAvoids |-> defaultMaxAvoids],
                          players |-> DocumentsOf(Roster(P, av, pr))]
              /\ IF P = 0 THEN view = NoView
                 ELSE \E i \in 1..P : view = ViewOf(Roster(P, av, pr), UidSeq[i])
    /\ pc = "validate"
    /\ attempt = 0
    /\ shuffledPlayerIds = <<>>
    /\ assignments = <<>>
    /\ targetCounts = <<>>
    /\ writerIndex = 0
    /\ stack = <<>>
    /\ retval = FALSE
    /\ result = none
    /\ errors = <<>>
    /\ runs = 1
    /\ prev = [edit |-> "none", outcome |-> "none"]
    /\ analysis = NoAnalysis
    /\ advisor = NoAdvisor
    /\ admin = "idle"
    /\ gameData = NoGameData
    /\ inflight = NoCalls

\* lines 82-89: the click; fewer than two players are refused with an alert
HandleRunMatchmaking ==
    /\ admin = "idle"
    /\ admin' = IF Len(players) < 2 THEN "finished" ELSE "running"
    /\ UNCHANGED <<players, N, pc, attempt, shuffledPlayerIds, assignments, targetCounts,
                   writerIndex, stack, retval, result, errors, runs, prev, analysis,
                   advisor, store, view, gameData, inflight>>

\* line 93: a step of runMatchmaking(players, N) on the admin's roster
RunStep ==
    /\ admin = "running"
    /\ Next

\* lines 95-141: null was returned, the conflict is analyzed and reported
ReportConflict ==
    /\ admin = "running"
    /\ pc = "done"
    /\ result = null
    /\ analysis' = AnalyzeMatchmakingConflict(players, N)
    /\ admin' = "finished"
    /\ UNCHANGED <<players, N, pc, attempt, shuffledPlayerIds, assignments, targetCounts,
                   writerIndex, stack, retval, result, errors, runs, prev, advisor,
                   store, view, gameData, inflight>>

\* the targets of a writer in an Assignment[], in order
RECURSIVE TargetsOf(_, _)
TargetsOf(list, writerId) ==
    IF list = <<>> THEN <<>>
    ELSE (IF Head(list).writerId = writerId THEN <<Head(list).targetId>> ELSE <<>>)
         \o TargetsOf(Tail(list), writerId)

\* line 144 and useGame.writeAssignments: one batch sets the assignments field
\* of every writer of the list
WriteAssignments ==
    /\ admin = "running"
    /\ pc = "done"
    /\ result.kind = "list"
    /\ store' = [store EXCEPT !.players =
                    [u \in DOMAIN store.players |->
                        IF \E k \in DOMAIN result.list : result.list[k].writerId = u
                        THEN [store.players[u] EXCEPT
                                 !.assignments = TargetsOf(result.list, u)]
                        ELSE store.players[u]]]
    /\ admin' = "written"
    /\ UNCHANGED <<players, N, pc, attempt, shuffledPlayerIds, assignments, targetCounts,
                   writerIndex, stack, retval, result, errors, runs, prev, analysis,
                   advisor, view, gameData, inflight>>

\* line 144, useGame.writeAssignments lines 210-212 and 233-237: the store is
\* not configured or batch.commit() rejects; a batch is applied whole or not
\* at all, the error is thrown again and the handler's catch block reports it
WriteAssignmentsFails ==
    /\ admin = "running"
    /\ pc = "done"
    /\ result.kind = "list"
    /\ admin' = "writeFailed"
    /\ UNCHANGED <<players, N, pc, attempt, shuffledPlayerIds, assignments, targetCounts,
                   writerIndex, stack, retval, result, errors, runs, prev, analysis,
                   advisor, store, view, gameData, inflight>>

\* UpdateGameStatusWriting called ahead of writeAssignments
UpdateGameStatusBeforeWrite ==
    /\ admin = "running"
    /\ pc = "done"
    /\ result.kind = "list"
    /\ store' = [store EXCEPT !.status = "WRITING"]
    /\ admin' = "finished"
    /\ UNCHANGED <<players, N, pc, attempt, shuffledPlayerIds, assignments, targetCounts,
                   writerIndex, stack, retval, result, errors, runs, prev, analysis,
                   advisor, view, gameData, inflight>>

\* line 147: updateGameStatus('WRITING')
UpdateGameStatusWriting ==
    /\ admin = "written"
    /\ store' = [store EXCEPT !.status = "WRITING"]
    /\ admin' = "finished"
    /\ UNCHANGED <<players, N, pc, attempt, shuffledPlayerIds, assignments, targetCounts,
                   writerIndex, stack, retval, result, errors, runs, prev, analysis,
                   advisor, view, gameData, inflight>>

\* line 147 and useGame.updateGameStatus lines 137-141: updateDoc rejects, the
\* status stays and the handler's catch block reports the error
UpdateGameStatusFails ==
    /\ admin = "written"
    /\ admin' = "statusFailed"
    /\ UNCHANGED <<players, N, pc, attempt, shuffledPlayerIds, assignments, targetCounts,
                   writerIndex, stack, retval, result, errors, runs, prev, analysis,
                   advisor, store, view, gameData, inflight>>

\* the player toggles a row after the admin's roster was delivered.
\* runMatchmaking is synchronous and reads that roster only, so a toggle that
\* reaches the store during the run is one that reaches it right after
ToggleAfterRun ==
    /\ admin = "running" \/ admin = "written"
    /\ pc = "done"
    /\ (HandleTogglePreference \/ HandleToggleAvoid)

NextGame ==
    \/ HandleRunMatchmaking
    \/ RunStep
    \/ ReportConflict
    \/ WriteAssignments
    \/ WriteAssignmentsFails
    \/ UpdateGameStatusWriting
    \/ UpdateGameStatusFails
    \/ ToggleAfterRun

SpecGame == InitGame /\ [][NextGame]_vars

\* ------------------------------------ useGame: submitWriting, revealWriterName
MaxCalls == 2

\* the texts a writer submits; the optional impression is left empty
Texts == {"v1", "v2"}

\* runMatchmaking not entered
EngineUnused ==
    /\ pc = "validate"
    /\ attempt = 0
    /\ shuffledPlayerIds = <<>>
    /\ assignments = <<>>
    /\ targetCounts = <<>>
    /\ writerIndex = 0
    /\ stack = <<>>
    /\ retval = FALSE
    /\ result = none
    /\ errors = <<>>
    /\ runs = 1
    /\ prev = [edit |-> "none", outcome |-> "none"]
    /\ analysis = NoAnalysis
    /\ advisor = NoAdvisor

\* the assignments field of the i-th of P players after a matchmaking run that
\* gave every writer the n players after it in roster order
StoredTargets(P, n, i) == [k \in 1..n |-> UidSeq[((i - 1 + k) % P) + 1]]

\* the player documents after that run
DocumentsWritten(ps, n) ==
    [u \in {ps[i].uid : i \in DOMAIN ps} |->
        [DocumentsOf(ps)[u] EXCEPT
            !.assignments =
                StoredTargets(Len(ps), n, CHOOSE i \in DOMAIN ps : ps[i].uid = u)]]

\* { ...submissions, [targetId]: entry }
Put(submissions, targetId, entry) ==
    [t \in DOMAIN submissions \cup {targetId} |->
        IF t = targetId THEN entry ELSE submissions[t]]

\* the writing or reveal phase after matchmaking; the document of one writer
\* is looked at (a call reads and writes the document of its uid only), that
\* writer having submitted about some of its targets, nothing revealed yet
InitSubmit ==
    /\ \E P \in 2..MaxPlayers, n \in 1..MaxN, status \in {"WRITING", "REVEAL"} :
          /\ n <= P - 1
          /\ players = Roster(P, {}, {})
          /\ N = n
          /\ \E w \in 1..P :
                \E submitted \in SUBSET Range(StoredTargets(P, n, w)) :
                   /\ store = [status |-> status,
                               config |-> [targetsPerPlayer |-> n,
                                           maxPreferences |-> defaultMaxPreferences,
                                           maxAvoids |-> defaultMaxAvoids],
                               players |->
                                  [DocumentsWritten(Roster(P, {}, {}), n) EXCEPT
                                      ![UidSeq[w]].submissions =
                                          [t \in submitted |->
                                              [impression |-> "", reality |-> "v1",
                                               writerRevealed |-> FALSE]]]]
                   /\ view = ViewOf(Roster(P, {}, {}), UidSeq[w])
          /\ gameData = [status |-> status]
    /\ EngineUnused
    /\ admin = "-"
    /\ inflight = NoCalls

\* lines 240-250: PlayerView.handleSubmitWriting calls
\* submitWriting(currentUserId, targetId, impression, reality) for one of the
\* writer's assigned targets
SubmitWriting ==
    /\ Len(inflight) < MaxCalls
    /\ store.status \in {"WRITING", "REVEAL"}
    /\ \E uid \in {view.currentUserId} :
          \E targetId \in Range(store.players[uid].assignments), reality \in Texts :
             inflight' = Append(inflight,
                                [op |-> "submitWriting", uid |-> uid, targetId |-> targetId,
                                 impression |-> "", reality |-> reality,
                                 pc |-> "getDoc", currentData |-> NoSubmissions])
    /\ UNCHANGED <<players, N, pc, attempt, shuffledPlayerIds, assignments, targetCounts,
                   writerIndex, stack, retval, result, errors, runs, prev, analysis,
                   advisor, store, view, admin, gameData>>

\* lines 277-283: revealWriterName(writerId, targetId) is called for the
\* writer and one of its targets
RevealWriterName ==
    /\ Len(inflight) < MaxCalls
    /\ store.status \in {"WRITING", "REVEAL"}
    /\ \E writerId \in {view.currentUserId} :
          \E targetId \in Range(store.players[writerId].assignments) :
             inflight' = Append(inflight,
                                [op |-> "revealWriterName", uid |-> writerId,
                                 targetId |-> targetId,
                                 impression |-> "", reality |-> "",
                                 pc |-> "getDoc", currentData |-> NoSubmissions])
    /\ UNCHANGED <<players, N, pc, attempt, shuffledPlayerIds, assignments, targetCounts,
                   writerIndex, stack, retval, result, errors, runs, prev, analysis,
                   advisor, store, view, admin, gameData>>

\* lines 251-257 and 284-294: await getDoc(...) resolves; a missing document
\* or, for the reveal, a missing submission throws
GetDoc ==
    /\ \E k \in DOMAIN inflight :
          LET call == inflight[k]
          IN  /\ call.op \in {"submitWriting", "revealWriterName"}
              /\ call.pc = "getDoc"
              /\ inflight' =
                    IF call.uid \notin DOMAIN store.players
                    THEN [inflight EXCEPT ![k].pc = "thrown"]
                    ELSE IF /\ call.op = "revealWriterName"
                            /\ call.targetId \notin DOMAIN store.players[call.uid].submissions
                    THEN [inflight EXCEPT ![k].pc = "thrown"]
                    ELSE [inflight EXCEPT ![k].pc = "updateDoc",
                                          ![k].currentData = store.players[call.uid].submissions]
    /\ UNCHANGED <<players, N, pc, attempt, shuffledPlayerIds, assignments, targetCounts,
                   writerIndex, stack, retval, result, errors, runs, prev, analysis,
                   advisor, store, view, admin, gameData>>

\* lines 258-266 and 290-302: the map the call writes, built from the
\* document it read
UpdatedSubmissions(call) ==
    IF call.op = "submitWriting"
    THEN Put(call.currentData, call.targetId,
             [impression |-> call.impression,
              reality |-> call.reality,
              writerRevealed |->
                  /\ call.targetId \in DOMAIN call.currentData
                  /\ call.currentData[call.targetId].writerRevealed])
    ELSE Put(call.currentData, call.targetId,
             [call.currentData[call.targetId] EXCEPT !.writerRevealed = TRUE])

\* lines 268 and 304: await updateDoc(ref, { submissions: updatedSubmissions })
\* replaces the submissions field of the document
UpdateDoc ==
    /\ \E k \in DOMAIN inflight :
          LET call == inflight[k]
          IN  /\ call.op \in {"submitWriting", "revealWriterName"}
              /\ call.pc = "updateDoc"
              /\ IF call.uid \notin DOMAIN store.players
                 THEN /\ inflight' = [inflight EXCEPT ![k].pc = "thrown"]
                      /\ UNCHANGED store
                 ELSE /\ inflight' = [inflight EXCEPT ![k].pc = "done"]
                      /\ store' = [store EXCEPT
                                     !.players[call.uid].submissions = UpdatedSubmissions(call)]
    /\ UNCHANGED <<players, N, pc, attempt, shuffledPlayerIds, assignments, targetCounts,
                   writerIndex, stack, retval, result, errors, runs, prev, analysis,
                   advisor, view, admin, gameData>>

NextSubmit == SubmitWriting \/ RevealWriterName \/ GetDoc \/ UpdateDoc

SpecSubmit == InitSubmit /\ [][NextSubmit]_vars

\* ------------------------------------------------- useGame: removePlayer
\* the phases in the order the admin's buttons go through them
NextPhase(status) ==
    CASE status = "LOBBY" -> "PREFERENCES"
      [] status = "PREFERENCES" -> "WRITING"
      [] OTHER -> "REVEAL"

\* the lobby, the preferences phase, or the preferences phase with the
\* assignments of a matchmaking run already written (handleRunMatchmaking
\* between its two awaits); every list holds other roster members only, no id
\* is both preferred and avoided; one player's client is looked at
InitRemove ==
    /\ \E P \in 2..MaxPlayers :
         \E av \in UpTo({x \in (1..P) \X AllUids : x[2] # UidSeq[x[1]]}, MaxAvoidTotal),
            pr \in UpTo({x \in (1..P) \X AllUids : x[2] # UidSeq[x[1]]}, MaxPrefTotal) :
              /\ av \cap pr = {}
              /\ players = Roster(P, av, pr)
              /\ \E status \in {"LOBBY", "PREFERENCES"}, n \in 0..MaxN :
                    /\ n <= P - 1
                    /\ n > 0 => /\ status = "PREFERENCES"
                                /\ \A i \in 1..P :
                                      \A k \in 1..n : <<i, StoredTargets(P, n, i)[k]>> \notin av
                    /\ N = OrDefault(n, defaultTargetsPerPlayer)
                    /\ store = [status |-> status,
                                config |-> [targetsPerPlayer |-> N,
                                            maxPreferences |-> defaultMaxPreferences,
                                            maxAvoids |-> defaultMaxAvoids],
                                players |-> IF n = 0 THEN DocumentsOf(Roster(P, av, pr))
                                            ELSE DocumentsWritten(Roster(P, av, pr), n)]
                    /\ gameData = [status |-> status]
              /\ \E i \in 1..P : view = ViewOf(Roster(P, av, pr), UidSeq[i])
    /\ EngineUnused
    /\ admin = "-"
    /\ inflight = NoCalls

\* updateGameStatus as the admin's client calls it: handleStartPreferences,
\* the end of handleRunMatchmaking (after its write), handleStartReveal
UpdateGameStatus ==
    /\ store.status \in {"LOBBY", "PREFERENCES", "WRITING"}
    /\ store.status = "PREFERENCES" =>
          \A u \in DOMAIN store.players : store.players[u].assignments # <<>>
    /\ store' = [store EXCEPT !.status = NextPhase(store.status)]
    /\ UNCHANGED <<players, N, pc, attempt, shuffledPlayerIds, assignments, targetCounts,
                   writerIndex, stack, retval, result, errors, runs, prev, analysis,
                   advisor, view, admin, gameData, inflight>>

\* the game listener of the client: setGameData(snapshot.data())
GameListener ==
    /\ gameData.status # store.status
    /\ gameData' = [status |-> store.status]
    /\ UNCHANGED <<players, N, pc, attempt, shuffledPlayerIds, assignments, targetCounts,
                   writerIndex, stack, retval, result, errors, runs, prev, analysis,
                   advisor, store, view, admin, inflight>>

\* lines 381-389: the Leave Game button calls removePlayer(currentUserId); the
\* phase is tested on the client's gameData
RemovePlayer ==
    /\ Len(inflight) < MaxCalls
    /\ inflight' = Append(inflight,
                          [op |-> "removePlayer",
                           uid |-> view.currentUserId,
                           pc |-> IF gameData.status = "WRITING" \/ gameData.status = "REVEAL"
                                  THEN "thrown" ELSE "getDocs",
                           snapshot |-> <<>>])
    /\ UNCHANGED <<players, N, pc, attempt, shuffledPlayerIds, assignments, targetCounts,
                   writerIndex, stack, retval, result, errors, runs, prev, analysis,
                   advisor, store, view, admin, gameData>>

\* lines 399-400: await getDocs(playersQuery)
GetDocs ==
    /\ \E k \in DOMAIN inflight :
          /\ inflight[k].op = "removePlayer"
          /\ inflight[k].pc = "getDocs"
          /\ inflight' = [inflight EXCEPT ![k].pc = "commit", ![k].snapshot = store.players]
    /\ UNCHANGED <<players, N, pc, attempt, shuffledPlayerIds, assignments, targetCounts,
                   writerIndex, stack, retval, result, errors, runs, prev, analysis,
                   advisor, store, view, admin, gameData>>

\* lines 402-437: needsUpdate of one document of the snapshot
NeedsUpdate(playerData, playerIdToRemove) ==
    \/ Includes(playerData.preferences, playerIdToRemove)
    \/ Includes(playerData.avoids, playerIdToRemove)
    \/ Includes(playerData.assignments, playerIdToRemove)
    \/ playerIdToRemove \in DOMAIN playerData.submissions

\* lines 407-431: the fields batch.update sets on a document, the others kept
Updated(current, playerData, playerIdToRemove) ==
    [preferences |-> IF Includes(playerData.preferences, playerIdToRemove)
                     THEN Without(playerData.preferences, playerIdToRemove)
                     ELSE current.preferences,
     avoids |-> IF Includes(playerData.avoids, playerIdToRemove)
                THEN Without(playerData.avoids, playerIdToRemove)
                ELSE current.avoids,
     assignments |-> IF Includes(playerData.assignments, playerIdToRemove)
                     THEN Without(playerData.assignments, playerIdToRemove)
                     ELSE current.assignments,
     submissions |-> IF playerIdToRemove \in DOMAIN playerData.submissions
                     THEN [t \in DOMAIN playerData.submissions \ {playerIdToRemove} |->
                              playerData.submissions[t]]
                     ELSE current.submissions]

\* lines 439-445: await batch.commit(): the updates of the documents that
\* needed one and the delete of the player's own document, all or nothing; an
\* update of a document that no longer exists rejects the batch
Commit ==
    /\ \E k \in DOMAIN inflight :
          LET call == inflight[k]
              touched == {u \in DOMAIN call.snapshot : NeedsUpdate(call.snapshot[u], call.uid)}
          IN  /\ call.op = "removePlayer"
              /\ call.pc = "commit"
              /\ IF touched \subseteq DOMAIN store.players
                 THEN /\ store' = [store EXCEPT !.players =
                                      [u \in DOMAIN store.players \ {call.uid} |->
                                          IF u \in touched
                                          THEN Updated(store.players[u], call.snapshot[u],
                                                       call.uid)
                                          ELSE store.players[u]]]
                      /\ inflight' = [inflight EXCEPT ![k].pc = "done"]
                 ELSE /\ inflight' = [inflight EXCEPT ![k].pc = "thrown"]
                      /\ UNCHANGED store
    /\ UNCHANGED <<players, N, pc, attempt, shuffledPlayerIds, assignments, targetCounts,
                   writerIndex, stack, retval, result, errors, runs, prev, analysis,
                   advisor, view, admin, gameData>>

NextRemove == UpdateGameStatus \/ GameListener \/ RemovePlayer \/ GetDocs \/ Commit

SpecRemove == InitRemove /\ [][NextRemove]_vars

\* ------------------------------------------------------------------ claims
Returned == pc = "done"
Succeeded == pc = "done" /\ result.kind = "list"
Failed == pc = "done" /\ result = null

RosterUids == {players[i].uid : i \in DOMAIN players}
AsWriter(u) == {k \in DOMAIN result.list : result.list[k].writerId = u}
AsTarget(u) == {k \in DOMAIN result.list : result.list[k].targetId = u}

\* the returned list is a complete assignment: N per writer, N per target, no
\* self-assignment, no duplicate pair, no avoided target
Complete ==
    /\ \A u \in RosterUids : Cardinality(AsWriter(u)) = N /\ Cardinality(AsTarget(u)) = N
    /\ \A k \in DOMAIN result.list :
          /\ result.list[k].writerId # result.list[k].targetId
          /\ ~Includes(PlayerOf(players, result.list[k].writerId).avoids, result.list[k].targetId)
    /\ \A k, l \in DOMAIN result.list : result.list[k] = result.list[l] => k = l

ValidationKinds == {"TooFewPlayers", "InvalidN", "WriterStarved", "TargetStarved"}
RejectedAtValidation == errors # <<>> /\ errors[1].kind \in ValidationKinds

\* C1: whenever runMatchmaking returns a list, every participant is the writer
\* of exactly N entries and the target of exactly N entries, and the list has
\* P*N entries
C1_ExactlyNEach ==
    Succeeded =>
        /\ \A u \in RosterUids :
              /\ Cardinality(AsWriter(u)) = N
              /\ Cardinality(AsTarget(u)) = N
        /\ Len(result.list) = Len(players) * N

C1_Witness ==
    /\ Succeeded
    /\ Len(players) = 3
    /\ N = 2

\* C2: no returned pair (w, t) has t in w's avoids, also when t is in w's
\* preferences as well
C2_NoAvoidedTarget ==
    Succeeded =>
        \A k \in DOMAIN result.list :
            ~Includes(PlayerOf(players, result.list[k].writerId).avoids,
                      result.list[k].targetId)

C2_Witness ==
    /\ Succeeded
    /\ \E i \in DOMAIN players : \E u \in RosterUids :
          /\ u # players[i].uid
          /\ Includes(players[i].avoids, u)
          /\ Includes(players[i].preferences, u)

\* C3: a returned list has no pair with writerId = targetId and no pair twice
C3_NoSelfNoDuplicate ==
    Succeeded =>
        /\ \A k \in DOMAIN result.list : result.list[k].writerId # result.list[k].targetId
        /\ \A k, l \in DOMAIN result.list : result.list[k] = result.list[l] => k = l

C3_Witness ==
    /\ Succeeded
    /\ N = 2
    /\ \E i \in DOMAIN players : Includes(players[i].preferences, players[i].uid)

\* C4: runMatchmaking returns null or a complete assignment list, nothing in
\* between; a list is what the successful attempt built, and every attempt
\* starts from empty lists and zero counts
C4_AllOrNothing ==
    /\ Returned => (result = null \/ (result.kind = "list" /\ Complete))
    /\ Succeeded => result.list = ToResult(originalPlayerIds, assignments)
    /\ (pc = "call" /\ stack = <<>>) =>
          \A u \in RosterUids : assignments[u] = <<>> /\ targetCounts[u] = 0

C4_Witness ==
    /\ Failed
    /\ attempt = maxAttempts

\* C5: every invocation terminates, after at most 100 attempts: the attempt
\* counter never passes 100, a step can be taken in every state before the
\* return, and every step lowers a rank that cannot fall forever (the attempts
\* left, then for each suspended backtrack call from the outermost inwards the
\* candidates it has left to try)
MaxDepth == Len(players) * (N + 1)
TopDigit == 2 * Len(players) + 2
OuterRank ==
    CASE pc = "validate" -> 2 * maxAttempts + 3
      [] pc = "attemptLoop" -> 2 * (maxAttempts - attempt) + 2
      [] pc \in {"call", "ret"} -> 2 * (maxAttempts - attempt) + 1
      [] OTHER -> 0
FrameDigit(d) ==
    IF d <= Len(stack)
    THEN (IF stack[d].kind = "loop" THEN 2 * (Len(stack[d].candidates) - stack[d].i) ELSE 0)
         + (IF d < Len(stack) \/ pc = "call" THEN 1 ELSE 0)
    ELSE IF pc = "call" THEN TopDigit ELSE 0
Rank == <<OuterRank>> \o [d \in 1..MaxDepth |-> FrameDigit(d)] \o <<Len(stack)>>
LexLess(x, y) ==
    \E k \in DOMAIN x : x[k] < y[k] /\ \A j \in 1..(k - 1) : x[j] = y[j]

C5_Terminates ==
    /\ [](attempt <= maxAttempts /\ Len(stack) <= MaxDepth)
    /\ [](pc # "done" => ENABLED Next)
    /\ [][LexLess(Rank', Rank)]_vars

C5_Witness ==
    /\ pc = "done"
    /\ attempt = maxAttempts
    /\ Len(players) = 3

\* C6: the input is rejected at validation if and only if P < 2, or N < 1, or
\* some participant has fewer than N roster members outside their avoids, or
\* some participant is left un-avoided by fewer than N roster members
WriterStarved(i) ==
    Cardinality({j \in DOMAIN players :
        j # i /\ players[j].uid \notin Range(players[i].avoids)}) < N
TargetStarved(i) ==
    Cardinality({j \in DOMAIN players :
        j # i /\ players[i].uid \notin Range(players[j].avoids)}) < N

C6_RejectedIff ==
    pc # "validate" =>
        (RejectedAtValidation <=>
            \/ Len(players) < 2
            \/ N < 1
            \/ \E i \in DOMAIN players : WriterStarved(i)
            \/ \E i \in DOMAIN players : TargetStarved(i))

C6_Witness ==
    /\ Failed
    /\ errors[1].kind = "TargetStarved"
    /\ N = 1
    /\ \A i \in DOMAIN players : ~WriterStarved(i)

\* C7: the roster a, b, c where a avoids b and b avoids a passes every
\* validator check with N = 1, and runMatchmaking returns failure on it
MutualAvoidRoster == Roster(3, {<<1, "b">>, <<2, "a">>}, {})

C7_ValidatedButFails ==
    (players = MutualAvoidRoster /\ N = 1) =>
        /\ ~RejectedAtValidation
        /\ Len(players) >= 2
        /\ \A i \in DOMAIN players : ~WriterStarved(i) /\ ~TargetStarved(i)
        /\ Returned => (result = null /\ errors = <<[kind |-> "AttemptsExhausted", uid |-> "-"]>>)

C7_Witness ==
    /\ players = MutualAvoidRoster
    /\ N = 1
    /\ Failed

\* C8: after an invocation that returned failure, an invocation on the same
\* input returns failure, whatever the shuffles
C8_FailureRepeats ==
    (Returned /\ prev.edit = "same" /\ prev.outcome = "failure") => result = null

C8_Witness ==
    /\ Returned
    /\ prev.edit = "same"
    /\ prev.outcome = "failure"
    /\ errors = <<[kind |-> "AttemptsExhausted", uid |-> "-"]>>

\* C9: after a success, the invocation on the input with one avoid removed
\* succeeds; after a failure, the invocation on the input with one avoid added
\* fails
C9_Monotone ==
    /\ (Returned /\ prev.edit = "removed" /\ prev.outcome = "success") => result.kind = "list"
    /\ (Returned /\ prev.edit = "added" /\ prev.outcome = "failure") => result = null

C9_Witness ==
    /\ Returned
    /\ prev.edit = "added"
    /\ prev.outcome = "failure"
    /\ errors = <<[kind |-> "AttemptsExhausted", uid |-> "-"]>>
    /\ \A i \in DOMAIN players : Len(players[i].avoids) <= 1

\* C10: one reason is reported, the first in the order too few participants,
\* invalid N, first writer-starved participant of the roster, first
\* target-starved participant of the roster
FirstOf(S) == CHOOSE i \in S : \A j \in S : i <= j
AllWriterStarved == {i \in DOMAIN players : WriterStarved(i)}
AllTargetStarved == {i \in DOMAIN players : TargetStarved(i)}

C10_FirstReasonOnly ==
    RejectedAtValidation =>
        /\ Len(errors) = 1
        /\ IF Len(players) < 2 THEN errors[1].kind = "TooFewPlayers"
           ELSE IF N < 1 THEN errors[1].kind = "InvalidN"
           ELSE IF AllWriterStarved # {}
                THEN errors[1] = [kind |-> "WriterStarved",
                                  uid |-> players[FirstOf(AllWriterStarved)].uid]
           ELSE /\ AllTargetStarved # {}
                /\ errors[1] = [kind |-> "TargetStarved",
                                uid |-> players[FirstOf(AllTargetStarved)].uid]

C10_Witness ==
    /\ RejectedAtValidation
    /\ Len(players) >= 2
    /\ N >= 1
    /\ Cardinality(AllWriterStarved) >= 2
    /\ AllTargetStarved # {}
    /\ FirstOf(AllTargetStarved) < FirstOf(AllWriterStarved)

\* C11: on a roster of exactly two participants with empty avoids and N = 1
\* runMatchmaking never returns null, and the list it returns is exactly the
\* two pairs (first, second) and (second, first)
TwoPlayersNoAvoids ==
    /\ Len(players) = 2
    /\ N = 1
    /\ \A i \in DOMAIN players : players[i].avoids = <<>>

C11_TwoPlayersSwap ==
    TwoPlayersNoAvoids =>
        /\ errors = <<>>
        /\ Returned =>
              /\ Succeeded
              /\ Len(result.list) = 2
              /\ Range(result.list) =
                    {[writerId |-> players[1].uid, targetId |-> players[2].uid],
                     [writerId |-> players[2].uid, targetId |-> players[1].uid]}

C11_Witness ==
    /\ TwoPlayersNoAvoids
    /\ Succeeded
    /\ players[1].preferences # <<>>

\* ---------------------------------------------------- claims on the analyzer
IndexOfName(name) == CHOOSE i \in DOMAIN players : NameOf(players[i]) = name
AvoidsLength(i) == Len(players[i].avoids)
OthersNotAvoiding(t) ==
    {j \in DOMAIN players : j # t /\ ~Includes(players[j].avoids, players[t].uid)}
OthersAvoiding(t) ==
    {j \in DOMAIN players : j # t /\ Includes(players[j].avoids, players[t].uid)}
OthersNotAvoidedBy(w) ==
    {j \in DOMAIN players : j # w /\ ~Includes(players[w].avoids, players[j].uid)}
OthersAvoidedBy(w) ==
    {j \in DOMAIN players : j # w /\ Includes(players[w].avoids, players[j].uid)}
Smaller(x, y) == IF x <= y THEN x ELSE y

\* the suggestions a pass pushed, in the order it pushed them
TargetPassFor(t) ==
    SelectSeq(analysis.suggestions, LAMBDA x :
        x.reason.pass = "target" /\ x.targetPlayerName = NameOf(players[t]))
WriterPassFor(w) ==
    SelectSeq(analysis.suggestions, LAMBDA x :
        x.reason.pass = "writer" /\ x.playerName = NameOf(players[w]))
AddPreferenceFor(w) ==
    SelectSeq(analysis.suggestions, LAMBDA x :
        x.action = "add_preference" /\ x.playerName = NameOf(players[w]))

\* s lists distinct members of pool, in ascending order of their avoids
\* length, none of them with a longer avoids list than a member left out
SmallestFirst(s, pool) ==
    /\ \A k \in DOMAIN s : s[k] \in pool
    /\ \A k, l \in DOMAIN s : k < l => s[k] # s[l] /\ AvoidsLength(s[k]) <= AvoidsLength(s[l])
    /\ \A j \in pool \ Range(s) : \A k \in DOMAIN s : AvoidsLength(s[k]) <= AvoidsLength(j)

\* C12: on a roster of three with N = 1 where one participant avoids both
\* others and the others avoid nobody, runMatchmaking returns null at
\* validation naming that participant as writer-starved, and the analyzer
\* returns a remove_avoid suggestion with that participant as actor and one of
\* the two others as counterpart
AvoidsBothOthers(w) ==
    /\ Len(players) = 3
    /\ N = 1
    /\ Range(players[w].avoids) = RosterUids \ {players[w].uid}
    /\ \A i \in DOMAIN players : i # w => players[i].avoids = <<>>

C12_WriterStarvedSuggestion ==
    \A w \in DOMAIN players :
        AvoidsBothOthers(w) =>
            /\ pc # "attemptLoop"
            /\ pc = "done" =>
                  /\ result = null
                  /\ errors = <<[kind |-> "WriterStarved", uid |-> players[w].uid]>>
            /\ analysis.called =>
                  \E k \in DOMAIN analysis.suggestions :
                      /\ analysis.suggestions[k].action = "remove_avoid"
                      /\ analysis.suggestions[k].playerName = NameOf(players[w])
                      /\ analysis.suggestions[k].targetPlayerName
                             \in {NameOf(players[i]) : i \in DOMAIN players \ {w}}

C12_Witness ==
    /\ AvoidsBothOthers(1)
    /\ pc = "done"
    /\ analysis.called

\* C13: for each participant T with c other members not avoiding T, the
\* target pass pushes nothing for T when c >= N, and otherwise exactly
\* min(N - c, number of members avoiding T) remove_avoid suggestions with
\* counterpart T, whose actors are distinct members avoiding T, taken in
\* ascending order of the length of their own avoids
C13_TargetPass ==
    analysis.called =>
        \A t \in DOMAIN players :
            LET c == Cardinality(OthersNotAvoiding(t))
                s == TargetPassFor(t)
                actors == [k \in DOMAIN s |-> IndexOfName(s[k].playerName)]
            IN  IF c >= N THEN s = <<>>
                ELSE /\ Len(s) = Smaller(N - c, Cardinality(OthersAvoiding(t)))
                     /\ \A k \in DOMAIN s :
                           /\ s[k].action = "remove_avoid"
                           /\ s[k].targetPlayerName = NameOf(players[t])
                     /\ SmallestFirst(actors, OthersAvoiding(t))

C13_Witness ==
    /\ analysis.called
    /\ \E t \in DOMAIN players :
          /\ Len(TargetPassFor(t)) = 1
          /\ \E i, j \in OthersAvoiding(t) : i < j /\ AvoidsLength(j) < AvoidsLength(i)

\* C14: for each participant W with v other members not in W's avoids, the
\* writer pass pushes nothing for W when v >= N, and otherwise exactly
\* min(N - v, number of members W avoids) remove_avoid suggestions with actor
\* W, whose counterparts are distinct members W avoids, taken in ascending
\* order of the length of the counterpart's own avoids
C14_WriterPass ==
    analysis.called =>
        \A w \in DOMAIN players :
            LET v == Cardinality(OthersNotAvoidedBy(w))
                s == WriterPassFor(w)
                counterparts == [k \in DOMAIN s |-> IndexOfName(s[k].targetPlayerName)]
            IN  IF v >= N THEN s = <<>>
                ELSE /\ Len(s) = Smaller(N - v, Cardinality(OthersAvoidedBy(w)))
                     /\ \A k \in DOMAIN s :
                           /\ s[k].action = "remove_avoid"
                           /\ s[k].playerName = NameOf(players[w])
                     /\ SmallestFirst(counterparts, OthersAvoidedBy(w))

C14_Witness ==
    /\ analysis.called
    /\ \E w \in DOMAIN players :
          /\ Len(WriterPassFor(w)) = 1
          /\ \E i, j \in OthersAvoidedBy(w) : i < j /\ AvoidsLength(j) < AvoidsLength(i)

\* C15: an add_preference suggestion is pushed for a participant only when it
\* has exactly N valid candidates, at most once per participant, and its
\* counterpart is a valid candidate (another member, not avoided) that is not
\* in the participant's preferences; none is pushed for a participant whose
\* valid candidates are all preferred
C15_PreferencePass ==
    analysis.called =>
        /\ \A k \in DOMAIN analysis.suggestions :
              analysis.suggestions[k].action = "add_preference" =>
                  LET w == IndexOfName(analysis.suggestions[k].playerName)
                      c == IndexOfName(analysis.suggestions[k].targetPlayerName)
                  IN  /\ Cardinality(OthersNotAvoidedBy(w)) = N
                      /\ c # w
                      /\ ~Includes(players[w].avoids, players[c].uid)
                      /\ ~Includes(players[w].preferences, players[c].uid)
        /\ \A w \in DOMAIN players :
              /\ Len(AddPreferenceFor(w)) <= 1
              /\ (\A j \in OthersNotAvoidedBy(w) :
                      Includes(players[w].preferences, players[j].uid))
                   => AddPreferenceFor(w) = <<>>

C15_Witness ==
    /\ analysis.called
    /\ N >= 1
    /\ \E w \in DOMAIN players :
          /\ Len(AddPreferenceFor(w)) = 1
          /\ \E j \in OthersNotAvoidedBy(w) : Includes(players[w].preferences, players[j].uid)

\* C16: the total the summary states is the length of the suggestion list and
\* the sum of the two counts it states, each count being the number of
\* suggestions of that action; the no-obvious-conflicts summary is produced
\* exactly when the list is empty; hasConflict is true exactly when it is not
CountOf(action) ==
    Cardinality({k \in DOMAIN analysis.suggestions : analysis.suggestions[k].action = action})

C16_SummaryConsistent ==
    analysis.called =>
        /\ (analysis.summary.text = "NoObviousConflicts") <=> (analysis.suggestions = <<>>)
        /\ analysis.summary.text = "Found" =>
              /\ analysis.summary.total = Len(analysis.suggestions)
              /\ analysis.summary.removeAvoidCount = CountOf("remove_avoid")
              /\ analysis.summary.addPrefCount = CountOf("add_preference")
              /\ analysis.summary.total =
                     analysis.summary.removeAvoidCount + analysis.summary.addPrefCount
        /\ analysis.hasConflict <=> (analysis.suggestions # <<>>)

C16_Witness ==
    /\ analysis.called
    /\ analysis.summary.text = "Found"
    /\ analysis.summary.removeAvoidCount >= 2
    /\ analysis.summary.addPrefCount >= 1

\* C17 as stated: zero suggestions on a roster of P >= 2 with N >= 1 mean
\* that no participant is writer-starved or target-starved
C17_ZeroSuggestionsNoStarved ==
    (analysis.called /\ analysis.suggestions = <<>> /\ Len(players) >= 2 /\ N >= 1) =>
        \A i \in DOMAIN players : ~WriterStarved(i) /\ ~TargetStarved(i)

\* C17: zero suggestions on a roster of P >= 2 with 1 <= N <= P - 1 mean that
\* no participant is writer-starved or target-starved, so that validation
\* lets the roster through
C17_ZeroSuggestionsNoStarvedWithinRoster ==
    (/\ analysis.called
     /\ analysis.suggestions = <<>>
     /\ Len(players) >= 2
     /\ N >= 1
     /\ N <= Len(players) - 1) =>
        /\ \A i \in DOMAIN players : ~WriterStarved(i) /\ ~TargetStarved(i)
        /\ pc # "validate" => pc = "attemptLoop" /\ errors = <<>>

C17_Witness ==
    /\ analysis.called
    /\ analysis.suggestions = <<>>
    /\ Len(players) = 3
    /\ N = 1
    /\ \E i \in DOMAIN players : OthersAvoidedBy(i) # {}
    /\ pc = "attemptLoop"

\* ------------------------------------------------ claims on the config advisor
\* C18: with playerCount < 2 or targetsPerPlayer < 1 calculateOptimalConfig
\* returns maxPreferences 0, maxAvoids 0 and one reasoning entry, the entry of
\* the playerCount test when both tests apply
C18_DegenerateInput ==
    (advisor.called /\ (advisor.playerCount < 2 \/ advisor.targetsPerPlayer < 1)) =>
        /\ advisor.out.maxPreferences = 0
        /\ advisor.out.maxAvoids = 0
        /\ Len(advisor.out.reasoning) = 1
        /\ advisor.out.reasoning[1].text =
              IF advisor.playerCount < 2 THEN "Need at least 2 players"
              ELSE "Targets per player must be at least 1"

C18_Witness ==
    /\ advisor.called
    /\ advisor.playerCount = 2
    /\ advisor.targetsPerPlayer = 0
    /\ advisor.out.reasoning[1].text = "Targets per player must be at least 1"

\* C19: with playerCount = 2 and targetsPerPlayer >= 1 calculateOptimalConfig
\* returns maxPreferences 1 and maxAvoids 0, whatever targetsPerPlayer is
C19_TwoPlayers ==
    (advisor.called /\ advisor.playerCount = 2 /\ advisor.targetsPerPlayer >= 1) =>
        /\ advisor.out.maxPreferences = 1
        /\ advisor.out.maxAvoids = 0

C19_Witness ==
    /\ advisor.called
    /\ advisor.playerCount = 2
    /\ advisor.targetsPerPlayer >= 2
    /\ advisor.out.maxPreferences = 1

\* C20: with playerCount >= 3 and targetsPerPlayer >= 1 the returned maxAvoids
\* is the largest integer not above 0.8 * max(0, playerCount - 1 -
\* targetsPerPlayer), and it is 0 when playerCount - 1 - targetsPerPlayer <= 0
C20_MaxAvoidsFloor ==
    (advisor.called /\ advisor.playerCount >= 3 /\ advisor.targetsPerPlayer >= 1) =>
        LET d == advisor.playerCount - 1 - advisor.targetsPerPlayer
            m == IF d > 0 THEN d ELSE 0
            k == advisor.out.maxAvoids
        IN  /\ 10 * k <= 8 * m
            /\ 8 * m < 10 * (k + 1)
            /\ d <= 0 => k = 0

C20_Witness ==
    /\ advisor.called
    /\ advisor.playerCount >= 3
    /\ advisor.targetsPerPlayer >= 1
    /\ advisor.out.maxAvoids >= 2
    /\ 10 * advisor.out.maxAvoids
          < 8 * (advisor.playerCount - 1 - advisor.targetsPerPlayer)

\* C21: with playerCount >= 3 and targetsPerPlayer >= 1 the returned
\* maxPreferences is the smallest integer not below 0.6 * (playerCount - 1),
\* capped at playerCount - 1, in the branch without avoids as well; it lies in
\* 1..playerCount - 1
C21_MaxPreferencesCeil ==
    (advisor.called /\ advisor.playerCount >= 3 /\ advisor.targetsPerPlayer >= 1) =>
        LET m == advisor.playerCount - 1
            k == advisor.out.maxPreferences
            c == CHOOSE x \in 0..m : 10 * x >= 6 * m /\ 10 * (x - 1) < 6 * m
        IN  /\ k = (IF c <= m THEN c ELSE m)
            /\ 1 <= k
            /\ k <= m

C21_Witness ==
    /\ advisor.called
    /\ advisor.playerCount >= 3
    /\ advisor.targetsPerPlayer >= advisor.playerCount - 1
    /\ advisor.out.maxAvoids = 0
    /\ 10 * advisor.out.maxPreferences > 6 * (advisor.playerCount - 1)

\* ------------------------------------------------- claims on frame effects
\* C22: no step of runMatchmaking or of analyzeMatchmakingConflict changes the
\* roster (its order, the preferences and avoids lists) or N, and a later
\* invocation of runMatchmaking starts from fresh locals
C22_InputUntouched ==
    [][/\ players' = players
       /\ N' = N
       /\ runs' # runs =>
             /\ pc' = "validate"
             /\ attempt' = 0
             /\ shuffledPlayerIds' = <<>>
             /\ assignments' = <<>>
             /\ targetCounts' = <<>>
             /\ stack' = <<>>
             /\ result' = none
             /\ errors' = <<>>]_vars

C22_Witness ==
    /\ runs = 2
    /\ pc = "done"
    /\ analysis.called
    /\ analysis.suggestions # <<>>
    /\ \E i, j \in DOMAIN players : i < j /\ Len(players[j].avoids) < Len(players[i].avoids)

\* C23 as stated: after a participant's own uid is added to its own avoids or
\* preferences, validation logs what it logged before and the analyzer returns
\* the suggestion list it returned before
C23_SelfReferenceIgnored ==
    prev.edit = "self" =>
        /\ pc # "validate" => errors = prev.outcome
        /\ analysis.called => analysis.suggestions = prev.suggestions

\* ---------------------------------------------------- claims on the search
\* some choice of N targets per writer satisfies every constraint
Feasible ==
    \E f \in [RosterUids -> SUBSET RosterUids] :
        /\ \A w \in RosterUids :
              /\ Cardinality(f[w]) = N
              /\ w \notin f[w]
              /\ \A t \in f[w] : ~Includes(PlayerOf(players, w).avoids, t)
        /\ \A t \in RosterUids : Cardinality({w \in RosterUids : t \in f[w]}) = N

ValidInput == Len(players) >= 2 /\ N >= 1

\* C27: when a complete assignment exists for a roster of at least two with
\* N >= 1, no attempt fails, whatever the writer order and the candidate
\* shuffles, so runMatchmaking returns a list from its first attempt; and it
\* returns null only when no complete assignment exists
C27_AttemptExhaustive ==
    /\ (pc = "ret" /\ stack = <<>> /\ retval = FALSE) => ~(ValidInput /\ Feasible)
    /\ (pc = "attemptLoop" /\ attempt >= 1) => ~(ValidInput /\ Feasible)
    /\ Succeeded => attempt = 0
    /\ (Failed /\ ValidInput) => ~Feasible

C27_Witness ==
    /\ pc = "ret"
    /\ retval = FALSE
    /\ Len(stack) >= 2
    /\ ValidInput
    /\ Feasible

\* C28: in every candidate list the preferred candidates come before the
\* others; the list holds every valid candidate, and after a failed candidate
\* the next one of the list is assigned in the same attempt, so the neutral
\* candidates are tried once the preferred ones have failed
PreferredFirst(frame) ==
    LET writer == PlayerOf(players, shuffledPlayerIds[frame.writerIndex + 1])
    IN  \A k, l \in DOMAIN frame.candidates :
            (k < l /\ Includes(writer.preferences, frame.candidates[l]))
                => Includes(writer.preferences, frame.candidates[k])

AllValid(frame) ==
    LET w == shuffledPlayerIds[frame.writerIndex + 1]
    IN  Range(frame.candidates) =
            {t \in RosterUids :
                /\ t # w
                /\ ~Includes(PlayerOf(players, w).avoids, t)
                /\ ~Includes(frame.entry.a[w], t)
                /\ frame.entry.c[t] < N}

CandidateListsOrdered ==
    \A k \in DOMAIN stack :
        stack[k].kind = "loop" => PreferredFirst(stack[k]) /\ AllValid(stack[k])

C28_PreferredFirstNeutralTried ==
    [][/\ CandidateListsOrdered'
       /\ (/\ pc = "ret"
           /\ retval = FALSE
           /\ stack # <<>>
           /\ stack[Len(stack)].kind = "loop"
           /\ stack[Len(stack)].i < Len(stack[Len(stack)].candidates))
          => LET top == stack[Len(stack)]
                 w == shuffledPlayerIds[top.writerIndex + 1]
             IN  /\ attempt' = attempt
                 /\ Len(stack') = Len(stack)
                 /\ stack'[Len(stack)].i = top.i + 1
                 /\ stack'[Len(stack)].candidates = top.candidates
                 /\ assignments'[w] = Append(top.entry.a[w], top.candidates[top.i + 1])]_vars

C28_Witness ==
    /\ pc = "call"
    /\ stack # <<>>
    /\ LET top == stack[Len(stack)]
           writer == PlayerOf(players, shuffledPlayerIds[top.writerIndex + 1])
       IN  /\ top.kind = "loop"
           /\ top.i >= 2
           /\ Includes(writer.preferences, top.candidates[1])
           /\ ~Includes(writer.preferences, top.candidates[top.i])
           /\ assignments[writer.uid][Len(assignments[writer.uid])] = top.candidates[top.i]

\* C29: during an attempt the count of each target is the number of writers
\* whose list holds it and is at most N, and each writer's list has at most N
\* entries, no duplicate, not the writer and none of the writer's avoids
C29_TentativeConsistent ==
    (pc \in {"call", "ret"}) =>
        /\ \A t \in RosterUids :
              /\ targetCounts[t] =
                    Cardinality({w \in RosterUids : Includes(assignments[w], t)})
              /\ targetCounts[t] <= N
        /\ \A w \in RosterUids :
              /\ Len(assignments[w]) <= N
              /\ \A k, l \in DOMAIN assignments[w] :
                    assignments[w][k] = assignments[w][l] => k = l
              /\ ~Includes(assignments[w], w)
              /\ \A k \in DOMAIN assignments[w] :
                    ~Includes(PlayerOf(players, w).avoids, assignments[w][k])

C29_Witness ==
    /\ pc = "ret"
    /\ retval = FALSE
    /\ Len(stack) >= 2
    /\ \E t \in RosterUids : targetCounts[t] = N
    /\ \E w \in RosterUids : Len(assignments[w]) < N

\* C30: when a call of backtrack returns false the two maps are what they
\* were when the call was entered
C30_FalseRestoresEntry ==
    [][/\ (pc = "call" /\ pc' = "ret" /\ retval' = FALSE)
            => assignments' = assignments /\ targetCounts' = targetCounts
       /\ (pc = "ret" /\ Len(stack') < Len(stack) /\ retval' = FALSE)
            => /\ assignments' = stack[Len(stack)].entry.a
               /\ targetCounts' = stack[Len(stack)].entry.c
       /\ (pc' = "ret" /\ stack' = <<>> /\ retval' = FALSE)
            => /\ \A u \in RosterUids : assignments'[u] = <<>> /\ targetCounts'[u] = 0]_vars

C30_Witness ==
    /\ pc = "ret"
    /\ retval = FALSE
    /\ stack = <<>>
    /\ Len(players) = 3
    /\ \A u \in RosterUids : assignments[u] = <<>> /\ targetCounts[u] = 0

\* --------------------------------------------------- claims on PlayerView
\* C25 as stated: with lists initially within the stored caps, after any
\* handleTogglePreference and handleToggleAvoid calls the preferences list has
\* at most config.maxPreferences entries and the avoids list at most
\* config.maxAvoids entries, for every stored cap including 0
C25_CapsEnforced ==
    /\ Len(view.localPreferences) <= store.config.maxPreferences
    /\ Len(view.localAvoids) <= store.config.maxAvoids
    /\ Len(store.players[view.currentUserId].preferences) <= store.config.maxPreferences
    /\ Len(store.players[view.currentUserId].avoids) <= store.config.maxAvoids

\* C26: starting from disjoint lists, after any handleTogglePreference and
\* handleToggleAvoid calls on other players the preferences and avoids lists
\* are disjoint, in the view and in the player's document, and neither holds
\* the player's own uid
Disjoint(s, t) == Range(s) \cap Range(t) = {}

C26_ListsDisjoint ==
    /\ Disjoint(view.localPreferences, view.localAvoids)
    /\ Disjoint(store.players[view.currentUserId].preferences,
                store.players[view.currentUserId].avoids)
    /\ ~Includes(view.localPreferences, view.currentUserId)
    /\ ~Includes(view.localAvoids, view.currentUserId)
    /\ ~Includes(store.players[view.currentUserId].preferences, view.currentUserId)
    /\ ~Includes(store.players[view.currentUserId].avoids, view.currentUserId)

C26_Witness ==
    \E t \in otherPlayers :
        /\ Includes(PlayerOf(players, view.currentUserId).preferences, t)
        /\ Includes(store.players[view.currentUserId].avoids, t)
        /\ ~Includes(store.players[view.currentUserId].preferences, t)
        /\ store.players[view.currentUserId].preferences # <<>>

\* ------------------------------------------- claims on the matchmaking run
\* C24 as stated: whenever the stored status is WRITING no player's stored
\* assignments hold an id of that player's stored avoids, also when a player
\* toggles avoids while the admin runs matchmaking on the roster it holds
C24_StoredAvoidsEnforced ==
    store.status = "WRITING" =>
        \A u \in DOMAIN store.players :
            \A k \in DOMAIN store.players[u].assignments :
                ~Includes(store.players[u].avoids, store.players[u].assignments[k])

\* C31: no attempt of a run starts unless validation has passed and no earlier
\* attempt has succeeded; the step after a successful attempt returns that
\* attempt's assignment and nothing happens after the return; null is returned
\* only by the step after a failed validation or by the step that finds 100
\* failed attempts
C31_RunOrdered ==
    /\ [](pc \in {"attemptLoop", "call", "ret"} =>
            /\ Validation(players, N) = NoReason
            /\ errors = <<>>
            /\ result = none)
    /\ [][/\ pc # "done"
          /\ (pc = "attemptLoop" /\ pc' = "call") => (retval = FALSE /\ attempt < maxAttempts)
          /\ (pc = "ret" /\ stack = <<>> /\ retval = TRUE) =>
                /\ pc' = "done"
                /\ attempt' = attempt
                /\ assignments' = assignments
                /\ result' = AssignmentList(ToResult(originalPlayerIds, assignments))
          /\ (result' = null /\ result # null) =>
                \/ pc = "validate" /\ attempt = 0 /\ Validation(players, N) # NoReason
                \/ /\ pc = "attemptLoop"
                   /\ attempt = maxAttempts
                   /\ retval = FALSE
                   /\ Validation(players, N) = NoReason]_vars

C31_Witness ==
    /\ result = null
    /\ attempt = maxAttempts
    /\ retval = FALSE
    /\ stack = <<>>
    /\ errors = <<[kind |-> "AttemptsExhausted", uid |-> "-"]>>
    /\ N = 1

\* C32: in the suggestion list the suggestions of the target pass come first,
\* then those of the writer pass, then the add_preference suggestions, and
\* within a pass the inspected participants follow the roster order (the
\* target pass inspects the participant named as target, the other two the
\* acting participant)
PassRank(s) ==
    CASE s.reason.pass = "target" -> 1
      [] s.reason.pass = "writer" -> 2
      [] OTHER -> 3
Inspected(s) == IF s.reason.pass = "target" THEN s.targetPlayerName ELSE s.playerName
RosterIndex(name) == CHOOSE i \in DOMAIN players : NameOf(players[i]) = name

C32_PassesInOrder ==
    analysis.called =>
        LET l == analysis.suggestions
        IN  /\ \A k \in DOMAIN l :
                  (l[k].action = "add_preference") <=> (PassRank(l[k]) = 3)
            /\ \A i, j \in DOMAIN l :
                  i < j =>
                     \/ PassRank(l[i]) < PassRank(l[j])
                     \/ /\ PassRank(l[i]) = PassRank(l[j])
                        /\ RosterIndex(Inspected(l[i])) <= RosterIndex(Inspected(l[j]))

C32_Witness ==
    /\ analysis.called
    /\ {PassRank(analysis.suggestions[k]) : k \in DOMAIN analysis.suggestions} = {1, 2, 3}
    /\ \E i, j \in DOMAIN analysis.suggestions :
          /\ i < j
          /\ PassRank(analysis.suggestions[i]) = 2
          /\ PassRank(analysis.suggestions[j]) = 2
          /\ Inspected(analysis.suggestions[i]) # Inspected(analysis.suggestions[j])

\* C33: on a roster of P >= 2 with 1 <= N <= P - 1, the roster whose avoids
\* lists have lost every pair (actor, counterpart) of a remove_avoid suggestion
\* passes the validator; the list may name the same pair twice
SuggestedRemovals ==
    {<<analysis.suggestions[k].playerName, analysis.suggestions[k].targetPlayerName>> :
        k \in {j \in DOMAIN analysis.suggestions :
                  analysis.suggestions[j].action = "remove_avoid"}}
Repaired ==
    [i \in DOMAIN players |->
        [players[i] EXCEPT !.avoids =
            SelectSeq(@, LAMBDA u : <<NameOf(players[i]), u>> \notin SuggestedRemovals)]]

C33_RemovalsRepair ==
    (/\ analysis.called
     /\ Len(players) >= 2
     /\ N >= 1
     /\ N <= Len(players) - 1) =>
        /\ Validation(Repaired, N) = NoReason
        /\ \A u \in {Repaired[i].uid : i \in DOMAIN Repaired} :
              /\ Cardinality(ValidCandidatesOf(Repaired, PlayerOf(Repaired, u))) >= N
              /\ Cardinality(PlayersWhoCanWriteAbout(Repaired, PlayerOf(Repaired, u))) >= N

C33_Witness ==
    /\ analysis.called
    /\ Len(players) = 3
    /\ N = 2
    /\ Validation(players, N) # NoReason
    /\ Validation(Repaired, N) = NoReason
    /\ \E i, j \in DOMAIN analysis.suggestions :
          /\ i < j
          /\ analysis.suggestions[i].action = "remove_avoid"
          /\ analysis.suggestions[j].action = "remove_avoid"
          /\ analysis.suggestions[i].playerName = analysis.suggestions[j].playerName
          /\ analysis.suggestions[i].targetPlayerName = analysis.suggestions[j].targetPlayerName

\* C34: for P >= 2 and 1 <= N <= P - 1 the maxAvoids calculateOptimalConfig
\* returns for (P, N) is at most P - 1 - N, and a roster whose avoids lists
\* all have at most that many entries is not rejected as writer-starved
C34_AdvisedCapKeepsWriters ==
    (/\ advisor.called
     /\ Len(players) >= 2
     /\ N >= 1
     /\ N <= Len(players) - 1) =>
        /\ advisor.out.maxAvoids <= Len(players) - 1 - N
        /\ (\A i \in DOMAIN players : Len(players[i].avoids) <= advisor.out.maxAvoids) =>
              /\ \A i \in DOMAIN players : ~WriterStarved(i)
              /\ \A k \in DOMAIN errors : errors[k].kind # "WriterStarved"

C34_Witness ==
    /\ advisor.called
    /\ Len(players) >= 4
    /\ N = 2
    /\ advisor.out.maxAvoids >= 1
    /\ \A i \in DOMAIN players : Len(players[i].avoids) = advisor.out.maxAvoids
    /\ pc # "validate"
    /\ \A k \in DOMAIN errors : errors[k].kind # "WriterStarved"

\* C35: in handleRunMatchmaking, after runMatchmaking returned null no
\* assignments are stored and the status stays; assignments are stored only by
\* the step after a returned list, while the status is still PREFERENCES; the
\* status changes only to WRITING, only after that write, with every writer's
\* stored assignments those of the returned list; after a failed write the
\* status is not WRITING and no assignments are stored
StoredAssignments == [u \in DOMAIN store.players |-> store.players[u].assignments]

C35_WriteThenStatus ==
    /\ []((result = null \/ admin = "writeFailed") =>
            /\ store.status = "PREFERENCES"
            /\ \A u \in DOMAIN store.players : store.players[u].assignments = <<>>)
    /\ [][/\ StoredAssignments' # StoredAssignments =>
                /\ admin = "running"
                /\ result.kind = "list"
                /\ store.status = "PREFERENCES"
                /\ store'.status = "PREFERENCES"
          /\ store'.status # store.status =>
                /\ admin = "written"
                /\ result.kind = "list"
                /\ store'.status = "WRITING"
                /\ \A u \in DOMAIN store.players :
                      store.players[u].assignments = TargetsOf(result.list, u)]_vars

C35_Witness ==
    /\ admin = "writeFailed"
    /\ result.kind = "list"
    /\ Len(result.list) = 6
    /\ store.status = "PREFERENCES"

\* C37 as stated: once a call revealWriterName(w, t) has completed, the stored
\* submission of w about t has writerRevealed = true, whatever submitWriting
\* calls for (w, t) run later or at the same time
C37_RevealSurvivesSubmit ==
    \A k \in DOMAIN inflight :
        (inflight[k].op = "revealWriterName" /\ inflight[k].pc = "done") =>
            /\ inflight[k].targetId \in DOMAIN store.players[inflight[k].uid].submissions
            /\ store.players[inflight[k].uid].submissions[inflight[k].targetId].writerRevealed

\* C38 as stated: after two calls submitWriting of one writer for two targets
\* have completed, the writer's stored submissions hold both targets, however
\* the reads and writes of the two calls interleave
C38_NoLostSubmission ==
    \A j, k \in DOMAIN inflight :
        (/\ inflight[j].op = "submitWriting" /\ inflight[j].pc = "done"
         /\ inflight[k].op = "submitWriting" /\ inflight[k].pc = "done"
         /\ inflight[j].uid = inflight[k].uid
         /\ inflight[j].targetId # inflight[k].targetId) =>
            {inflight[j].targetId, inflight[k].targetId}
                \subseteq DOMAIN store.players[inflight[j].uid].submissions

\* C36 as stated: while the stored status is WRITING or REVEAL no step of a
\* removePlayer call deletes or changes a player document, also when the
\* status changed during the call or the client's copy of it is stale
C36_NoRemovalAfterMatchmaking ==
    [][store.status \in {"WRITING", "REVEAL"} => store.players' = store.players]_vars

\* C39: when some complete assignment gives the first writer of the shuffled
\* order a target of its preferences, the list the attempt returns gives that
\* writer a target of its preferences
PreferredTargetPossible(w) ==
    \E f \in [RosterUids -> SUBSET RosterUids] :
        /\ \A x \in RosterUids :
              /\ Cardinality(f[x]) = N
              /\ x \notin f[x]
              /\ \A t \in f[x] : ~Includes(PlayerOf(players, x).avoids, t)
        /\ \A t \in RosterUids : Cardinality({x \in RosterUids : t \in f[x]}) = N
        /\ \E t \in f[w] : Includes(PlayerOf(players, w).preferences, t)

C39_FirstWriterPreferred ==
    (Succeeded /\ PreferredTargetPossible(shuffledPlayerIds[1])) =>
        \E k \in DOMAIN result.list :
            /\ result.list[k].writerId = shuffledPlayerIds[1]
            /\ Includes(PlayerOf(players, shuffledPlayerIds[1]).preferences,
                        result.list[k].targetId)

C39_Witness ==
    /\ Succeeded
    /\ Len(players) = 3
    /\ N = 1
    /\ PreferredTargetPossible(shuffledPlayerIds[1])
    /\ \E i \in DOMAIN players : players[i].avoids # <<>>
    /\ \E k \in DOMAIN result.list :
          /\ result.list[k].writerId = shuffledPlayerIds[1]
          /\ Includes(PlayerOf(players, shuffledPlayerIds[1]).preferences,
                      result.list[k].targetId)

====
